---- MODULE Spec2Model ----
(***************************************************************************)
(* Request-translation layer of alpaca_mcp_server.py: the two order tools  *)
(* (place_stock_order, place_option_market_order), their validation        *)
(* helpers and the call they make to trade_client.submit_order.            *)
(*                                                                         *)
(* Python values are records tagged by type (field t); Python strings are  *)
(* TLA+ strings, taken apart with Len/SubSeq so that lower(), upper() and  *)
(* the "in" substring test are computed character by character.            *)
(***************************************************************************)
EXTENDS Integers, Sequences, FiniteSets, TLC

VARIABLES
    pc,         \* "idle", "awaiting" (inside submit_order) or "done" (the tool has returned)
    call,       \* the tool invoked and its arguments
    submitted,  \* the calls of trade_client.submit_order made by this invocation
    reply,      \* what submit_order did: the Order it returned or the exception it raised
    outcome,    \* how the invocation ended: the value returned or the exception propagated
    now         \* int(time.time()), in seconds from the start

vars == <<pc, call, submitted, reply, outcome, now>>

(***************************************************************************)
(* Bounds of the model.                                                    *)
(***************************************************************************)
MaxClock == 1

(***************************************************************************)
(* Python values.                                                          *)
(***************************************************************************)
PyNone == [t |-> "NoneType"]
PyStr(s) == [t |-> "str", s |-> s]
PyInt(n) == [t |-> "int", n |-> n]
PyFloat(n) == [t |-> "float", n |-> n]
PyBool(b) == [t |-> "bool", b |-> b]
PyList(items) == [t |-> "list", items |-> items]
PyEnum(cls, name) == [t |-> cls, name |-> name]

IsNone(v) == v.t = "NoneType"
IsStr(v) == v.t = "str"

(***************************************************************************)
(* str.lower(), str.upper(), the "in" test on strings, str(int).           *)
(***************************************************************************)
UpperLetters == "ABCDEFGHIJKLMNOPQRSTUVWXYZ"
LowerLetters == "abcdefghijklmnopqrstuvwxyz"
Digits == "0123456789"

CharAt(s, i) == SubSeq(s, i, i)

\* the character maps of lower() and upper(), letter by letter
ToLower == [c \in {CharAt(UpperLetters, i) : i \in 1..Len(UpperLetters)} |->
               CharAt(LowerLetters, CHOOSE i \in 1..Len(UpperLetters) : CharAt(UpperLetters, i) = c)]
ToUpper == [c \in {CharAt(LowerLetters, i) : i \in 1..Len(LowerLetters)} |->
               CharAt(UpperLetters, CHOOSE i \in 1..Len(LowerLetters) : CharAt(LowerLetters, i) = c)]

MapChar(c, map) == IF c \in DOMAIN map THEN map[c] ELSE c

RECURSIVE MapStr(_, _)
MapStr(s, map) ==
    IF Len(s) = 0 THEN ""
    ELSE MapChar(CharAt(s, 1), map) \o MapStr(SubSeq(s, 2, Len(s)), map)

lower(s) == MapStr(s, ToLower)
upper(s) == MapStr(s, ToUpper)

Contains(s, sub) ==
    \E i \in 1..(Len(s) - Len(sub) + 1) : SubSeq(s, i, i + Len(sub) - 1) = sub

StartsWith(s, pre) == Len(s) >= Len(pre) /\ SubSeq(s, 1, Len(pre)) = pre

RECURSIVE NatStr(_)
NatStr(n) ==
    IF n < 10 THEN CharAt(Digits, n + 1)
    ELSE NatStr(n \div 10) \o CharAt(Digits, (n % 10) + 1)

IntStr(n) == IF n < 0 THEN "-" \o NatStr(0 - n) ELSE NatStr(n)

\* f"{v}" / str(v) of a Python value
Fmt(v) ==
    CASE v.t = "str" -> v.s
      [] v.t = "int" -> IntStr(v.n)
      [] v.t = "float" -> IntStr(v.n) \o ".0"
      [] v.t = "bool" -> IF v.b THEN "True" ELSE "False"
      [] v.t = "NoneType" -> "None"
      [] v.t = "list" -> "[...]"
      [] OTHER -> v.t \o "." \o v.name

\* f"{type(v)}"
TypeRepr(v) == "<class '" \o v.t \o "'>"

\* bool(v): the truth value "x or y" tests
Truthy(v) ==
    CASE v.t = "str" -> Len(v.s) > 0
      [] v.t = "int" -> v.n # 0
      [] v.t = "float" -> v.n # 0
      [] v.t = "bool" -> v.b
      [] v.t = "NoneType" -> FALSE
      [] v.t = "list" -> Len(v.items) > 0
      [] OTHER -> TRUE

(***************************************************************************)
(* The outcome of running a piece of code: it returns a value, raises an   *)
(* exception, or reaches the call of trade_client.submit_order.            *)
(***************************************************************************)
Return(v) == [k |-> "return", v |-> v]
ReturnStr(s) == Return(PyStr(s))
Raise(exc, msg) == [k |-> "raise", exc |-> exc, msg |-> msg]
Submit(req, legs, cls) == [k |-> "submit", req |-> req, legs |-> legs, cls |-> cls]

NoOutcome == [k |-> "none"]
NoCall == [tool |-> "none"]

\* str.lower() / str.upper() on a value that is not a str
NoAttribute(v, attr) ==
    Raise("AttributeError", "'" \o v.t \o "' object has no attribute '" \o attr \o "'")

(***************************************************************************)
(* place_stock_order, up to the call of trade_client.submit_order.         *)
(* a is the record of the tool's arguments, t the value of time.time().    *)
(***************************************************************************)
DefaultClientOrderId(cid, prefix, t) ==
    IF Truthy(cid) THEN cid ELSE PyStr(prefix \o IntStr(t))

StockCommon(a, cls, type, order_side, tif_enum, t) ==
    [cls |-> cls,
     symbol |-> a.symbol,
     qty |-> a.quantity,
     side |-> PyEnum("OrderSide", order_side),
     type |-> PyEnum("OrderType", type),
     time_in_force |-> PyEnum("TimeInForce", tif_enum),
     extended_hours |-> a.extended_hours,
     client_order_id |-> DefaultClientOrderId(a.client_order_id, "order_", t)]

TimeInForceNames == {"DAY", "GTC", "OPG", "CLS", "IOC", "FOK"}

\* as MissingForLimit, with the check left out
MissingForLimit_unchecked(a) == FALSE

\* line 831
MissingForLimit(a) == IsNone(a.limit_price)

\* line 844
MissingForStop(a) == IsNone(a.stop_price)

\* as MissingForStopLimit, with "and" for "or"
MissingForStopLimit_and(a) == IsNone(a.stop_price) /\ IsNone(a.limit_price)

\* line 857
MissingForStopLimit(a) == IsNone(a.stop_price) \/ IsNone(a.limit_price)

\* as MissingForTrailingStop, with "or" for "and"
MissingForTrailingStop_or(a) == IsNone(a.trail_price) \/ IsNone(a.trail_percent)

\* as MissingForTrailingStop, with the check left out
MissingForTrailingStop_unchecked(a) == FALSE

\* line 871
MissingForTrailingStop(a) == IsNone(a.trail_price) /\ IsNone(a.trail_percent)

\* lines 818-885: the request of the order type, or the early return
StockOrderData(a, order_side, tif_enum, t) ==
    IF ~IsStr(a.order_type) THEN NoAttribute(a.order_type, "upper")
    ELSE LET order_type_upper == upper(a.order_type.s) IN
    CASE order_type_upper = "MARKET" ->
            Submit(StockCommon(a, "MarketOrderRequest", "MARKET", order_side, tif_enum, t),
                   <<>>, PyNone)
      [] order_type_upper = "LIMIT" ->
            IF MissingForLimit(a)
            THEN ReturnStr("limit_price is required for LIMIT orders.")
            ELSE Submit(StockCommon(a, "LimitOrderRequest", "LIMIT", order_side, tif_enum, t)
                            @@ [limit_price |-> a.limit_price],
                        <<>>, PyNone)
      [] order_type_upper = "STOP" ->
            IF MissingForStop(a)
            THEN ReturnStr("stop_price is required for STOP orders.")
            ELSE Submit(StockCommon(a, "StopOrderRequest", "STOP", order_side, tif_enum, t)
                            @@ [stop_price |-> a.stop_price],
                        <<>>, PyNone)
      [] order_type_upper = "STOP_LIMIT" ->
            IF MissingForStopLimit(a)
            THEN ReturnStr("Both stop_price and limit_price are required for STOP_LIMIT orders.")
            ELSE Submit(StockCommon(a, "StopLimitOrderRequest", "STOP_LIMIT", order_side, tif_enum, t)
                            @@ [stop_price |-> a.stop_price, limit_price |-> a.limit_price],
                        <<>>, PyNone)
      [] order_type_upper = "TRAILING_STOP" ->
            IF MissingForTrailingStop(a)
            THEN ReturnStr("Either trail_price or trail_percent is required for TRAILING_STOP orders.")
            ELSE Submit(StockCommon(a, "TrailingStopOrderRequest", "TRAILING_STOP", order_side, tif_enum, t)
                            @@ [trail_price |-> a.trail_price, trail_percent |-> a.trail_percent],
                        <<>>, PyNone)
      [] OTHER ->
            ReturnStr("Invalid order type: " \o a.order_type.s
                   \o ". Must be one of: MARKET, LIMIT, STOP, STOP_LIMIT, TRAILING_STOP.")

\* lines 794-816: time_in_force to the enum, then the order type
StockTimeInForce(a, order_side, t) ==
    IF a.time_in_force.t = "TimeInForce"
    THEN StockOrderData(a, order_side, a.time_in_force.name, t)
    ELSE IF IsStr(a.time_in_force)
    THEN LET time_in_force_upper == upper(a.time_in_force.s) IN
         IF time_in_force_upper \in TimeInForceNames
         THEN StockOrderData(a, order_side, time_in_force_upper, t)
         ELSE ReturnStr("Invalid time_in_force: " \o a.time_in_force.s
                     \o ". Valid options are: DAY, GTC, OPG, CLS, IOC, FOK")
    ELSE ReturnStr("Invalid time_in_force type: " \o TypeRepr(a.time_in_force)
                \o ". Must be string or TimeInForce enum.")

\* as StockTryBody, with the side compared without lower()
StockTryBody_case_sensitive(a, t) ==
    IF ~IsStr(a.side) THEN NoAttribute(a.side, "lower")
    ELSE IF a.side.s = "buy" THEN StockTimeInForce(a, "BUY", t)
    ELSE IF a.side.s = "sell" THEN StockTimeInForce(a, "SELL", t)
    ELSE ReturnStr("Invalid order side: " \o a.side.s \o ". Must be 'buy' or 'sell'.")

\* lines 786-792: the side, then the rest of the try block
StockTryBody(a, t) ==
    IF ~IsStr(a.side) THEN NoAttribute(a.side, "lower")
    ELSE IF lower(a.side.s) = "buy" THEN StockTimeInForce(a, "BUY", t)
    ELSE IF lower(a.side.s) = "sell" THEN StockTimeInForce(a, "SELL", t)
    ELSE ReturnStr("Invalid order side: " \o a.side.s \o ". Must be 'buy' or 'sell'.")

\* lines 901-902: except Exception as e
StockExcept(o) ==
    IF o.k = "raise" THEN ReturnStr("Error placing order: " \o o.msg) ELSE o

\* lines 889-900: the text of a placed order
StockOrderPlaced(order) ==
    ReturnStr("\nOrder Placed Successfully:\n-------------------------\nOrder ID: "
           \o order.id \o "\nSymbol: " \o Fmt(order.symbol)
           \o "\nSide: " \o Fmt(order.side) \o "\nQuantity: " \o Fmt(order.qty)
           \o "\nType: " \o Fmt(order.type)
           \o "\nTime In Force: " \o Fmt(order.time_in_force)
           \o "\nStatus: " \o order.status
           \o "\nClient Order ID: " \o Fmt(order.client_order_id) \o "\n")

(***************************************************************************)
(* Options trading helper functions.                                       *)
(***************************************************************************)
\* isinstance(v, int): bool is a subclass of int
isinstance_int(v) == v.t \in {"int", "bool"}
NumOf(v) == IF v.t = "bool" THEN (IF v.b THEN 1 ELSE 0) ELSE v.n

\* d[key] of a dict d: the value, or KeyError
HasKey(d, key) == key \in DOMAIN d
KeyError(key) == Raise("KeyError", "'" \o key \o "'")

MaxOptionLegs == 4

\* lines 1595-1607
_validate_option_order_inputs(legs, quantity, time_in_force) ==
    IF Len(legs) = 0 THEN PyStr("Error: No option legs provided")
    ELSE IF Len(legs) > MaxOptionLegs
    THEN PyStr("Error: Maximum of 4 legs allowed for option orders")
    ELSE IF NumOf(quantity) <= 0 THEN PyStr("Error: Quantity must be positive")
    ELSE IF time_in_force # PyEnum("TimeInForce", "DAY")
    THEN PyStr("Error: Only DAY time_in_force is supported for options trading")
    ELSE PyNone

OrderClassNames == {"SIMPLE", "BRACKET", "OCO", "OTO", "MLEG"}

\* the str an OrderClass member is (OrderClass is a str enum)
StrOf(v) == IF v.t = "OrderClass" THEN lower(v.name) ELSE v.s
isinstance_str(v) == v.t \in {"str", "OrderClass"}

\* lines 1610-1627
_convert_order_class_string(order_class) ==
    IF isinstance_str(order_class)
    THEN LET order_class_upper == upper(StrOf(order_class)) IN
         IF order_class_upper \in OrderClassNames
         THEN PyEnum("OrderClass", order_class_upper)
         ELSE PyStr("Invalid order class: " \o Fmt(order_class)
                    \o ". Must be one of: simple, bracket, oco, oto, mleg")
    ELSE order_class

OptionLegRequest(symbol, side, ratio_qty) ==
    [symbol |-> symbol, side |-> PyEnum("OrderSide", side), ratio_qty |-> ratio_qty]

\* lines 1633-1650: one pass of the loop; the side of the leg, or the way out
ProcessLeg(leg) ==
    IF ~HasKey(leg, "ratio_qty") THEN KeyError("ratio_qty")
    ELSE IF ~isinstance_int(leg.ratio_qty) \/ NumOf(leg.ratio_qty) <= 0
    THEN IF ~HasKey(leg, "symbol") THEN KeyError("symbol")
         ELSE ReturnStr("Error: Invalid ratio_qty for leg " \o Fmt(leg.symbol)
                        \o ". Must be positive integer.")
    ELSE IF ~HasKey(leg, "side") THEN KeyError("side")
    ELSE IF ~IsStr(leg.side) THEN NoAttribute(leg.side, "lower")
    ELSE IF lower(leg.side.s) \notin {"buy", "sell"}
    THEN ReturnStr("Invalid order side: " \o leg.side.s \o ". Must be 'buy' or 'sell'.")
    ELSE IF ~HasKey(leg, "symbol") THEN KeyError("symbol")
    ELSE [k |-> "append",
          leg |-> OptionLegRequest(leg.symbol, upper(leg.side.s), leg.ratio_qty)]

\* as ProcessLegsFrom, with each leg put in front of the list
RECURSIVE ProcessLegsFrom_prepend(_, _, _)
ProcessLegsFrom_prepend(legs, i, order_legs) ==
    IF i > Len(legs) THEN Return(PyList(order_legs))
    ELSE LET o == ProcessLeg(legs[i]) IN
         IF o.k = "append"
         THEN ProcessLegsFrom_prepend(legs, i + 1, <<o.leg>> \o order_legs)
         ELSE o

\* lines 1632-1651: the loop, from leg i on
RECURSIVE ProcessLegsFrom(_, _, _)
ProcessLegsFrom(legs, i, order_legs) ==
    IF i > Len(legs) THEN Return(PyList(order_legs))
    ELSE LET o == ProcessLeg(legs[i]) IN
         IF o.k = "append"
         THEN ProcessLegsFrom(legs, i + 1, Append(order_legs, o.leg))
         ELSE o

\* lines 1630-1651
_process_option_legs(legs) == ProcessLegsFrom(legs, 1, <<>>)

\* as _create_option_market_order_request, choosing the shape by the number of legs
_create_option_market_order_request_by_count(order_legs, order_class, quantity, time_in_force, extended_hours, t) ==
    IF Len(order_legs) > 1
    THEN [cls |-> "MarketOrderRequest",
          qty |-> quantity,
          order_class |-> order_class,
          time_in_force |-> time_in_force,
          extended_hours |-> extended_hours,
          client_order_id |-> PyStr("mcp_opt_" \o IntStr(t)),
          type |-> PyEnum("OrderType", "MARKET"),
          legs |-> PyList(order_legs)]
    ELSE [cls |-> "MarketOrderRequest",
          symbol |-> order_legs[1].symbol,
          qty |-> quantity,
          side |-> order_legs[1].side,
          order_class |-> order_class,
          time_in_force |-> time_in_force,
          extended_hours |-> extended_hours,
          client_order_id |-> PyStr("mcp_opt_" \o IntStr(t)),
          type |-> PyEnum("OrderType", "MARKET")]

\* lines 1654-1683
_create_option_market_order_request(order_legs, order_class, quantity, time_in_force, extended_hours, t) ==
    IF order_class = PyEnum("OrderClass", "MLEG")
    THEN [cls |-> "MarketOrderRequest",
          qty |-> quantity,
          order_class |-> order_class,
          time_in_force |-> time_in_force,
          extended_hours |-> extended_hours,
          client_order_id |-> PyStr("mcp_opt_" \o IntStr(t)),
          type |-> PyEnum("OrderType", "MARKET"),
          legs |-> PyList(order_legs)]
    ELSE [cls |-> "MarketOrderRequest",
          symbol |-> order_legs[1].symbol,
          qty |-> quantity,
          side |-> order_legs[1].side,
          order_class |-> order_class,
          time_in_force |-> time_in_force,
          extended_hours |-> extended_hours,
          client_order_id |-> PyStr("mcp_opt_" \o IntStr(t)),
          type |-> PyEnum("OrderType", "MARKET")]

\* lines 1707-1718: the lines of one leg of the placed order
FormatLeg(leg) ==
    "\n                    Symbol: " \o Fmt(leg.symbol)
    \o "\n                    Side: " \o Fmt(leg.side)
    \o "\n                    Ratio Quantity: " \o Fmt(leg.ratio_qty)
    \o "\n                    -------------------------\n                    "

RECURSIVE FormatLegs(_)
FormatLegs(legs) ==
    IF Len(legs) = 0 THEN "" ELSE FormatLeg(Head(legs)) \o FormatLegs(Tail(legs))

\* lines 1686-1728
_format_option_order_response(order, order_class, order_legs) ==
    LET result ==
            "\n            Option Market Order Placed Successfully:"
            \o "\n            --------------------------------------"
            \o "\n            Order ID: " \o order.id
            \o "\n            Client Order ID: " \o Fmt(order.client_order_id)
            \o "\n            Order Class: " \o Fmt(order.order_class)
            \o "\n            Order Type: " \o Fmt(order.type)
            \o "\n            Time In Force: " \o Fmt(order.time_in_force)
            \o "\n            Status: " \o order.status
            \o "\n            Quantity: " \o Fmt(order.qty)
            \o "\n            "
    IN  IF order_class = PyEnum("OrderClass", "MLEG") /\ HasKey(order, "legs")
           /\ Truthy(order.legs)
        THEN PyStr(result \o "\nLegs:\n" \o FormatLegs(order.legs.items))
        ELSE PyStr(result \o "\n                Symbol: "
                   \o (IF HasKey(order, "symbol") THEN Fmt(order.symbol) ELSE "None")
                   \o "\n                Side: " \o Fmt(order_legs[1].side)
                   \o "\n                -------------------------\n                ")

(***************************************************************************)
(* str.split(sep) for a separator of one character: the pieces of index 0  *)
(* and 1, and the slice [:6].                                              *)
(***************************************************************************)
FirstIndex(s, c) ==
    IF \E i \in 1..Len(s) : CharAt(s, i) = c
    THEN CHOOSE i \in 1..Len(s) :
            CharAt(s, i) = c /\ \A j \in 1..(i - 1) : CharAt(s, j) # c
    ELSE 0

Split0(s, c) ==
    IF FirstIndex(s, c) = 0 THEN s ELSE SubSeq(s, 1, FirstIndex(s, c) - 1)

\* defined when c occurs in s
Split1(s, c) == Split0(SubSeq(s, FirstIndex(s, c) + 1, Len(s)), c)

Prefix(s, n) == IF Len(s) <= n THEN s ELSE SubSeq(s, 1, n)

ExpirationLen == 6

\* as _analyze_option_strategy_type, with the calendar test for two legs of one type
_analyze_option_strategy_type_same_type(order_legs, order_class) ==
    IF order_class = PyEnum("OrderClass", "MLEG") /\ Len(order_legs) = 2
    THEN LET both_short ==
                 /\ order_legs[1].side = PyEnum("OrderSide", "SELL")
                 /\ order_legs[2].side = PyEnum("OrderSide", "SELL")
             sym1 == order_legs[1].symbol.s
             sym2 == order_legs[2].symbol.s
             is_short_straddle == Split0(sym1, "C") = Split0(sym2, "P")
             leg1_type == IF Contains(sym1, "C") THEN "C" ELSE "P"
             leg2_type == IF Contains(sym2, "C") THEN "C" ELSE "P"
             is_short_calendar ==
                 /\ leg1_type = leg2_type
                 /\ Prefix(Split1(sym1, leg1_type), ExpirationLen)
                       # Prefix(Split1(sym2, leg2_type), ExpirationLen)
         IN  IF both_short
             THEN <<is_short_straddle,
                    ~is_short_straddle /\ ~is_short_calendar,
                    is_short_calendar>>
             ELSE <<FALSE, FALSE, FALSE>>
    ELSE <<FALSE, FALSE, FALSE>>

\* as _analyze_option_strategy_type, with one short leg enough
_analyze_option_strategy_type_one_short(order_legs, order_class) ==
    IF order_class = PyEnum("OrderClass", "MLEG") /\ Len(order_legs) = 2
    THEN LET both_short ==
                 \/ order_legs[1].side = PyEnum("OrderSide", "SELL")
                 \/ order_legs[2].side = PyEnum("OrderSide", "SELL")
             sym1 == order_legs[1].symbol.s
             sym2 == order_legs[2].symbol.s
             is_short_straddle == Split0(sym1, "C") = Split0(sym2, "P")
             leg1_type == IF Contains(sym1, "C") THEN "C" ELSE "P"
             leg2_type == IF Contains(sym2, "C") THEN "C" ELSE "P"
             is_short_calendar ==
                 /\ leg1_type = "C" /\ leg2_type = "C"
                 /\ Prefix(Split1(sym1, leg1_type), ExpirationLen)
                       # Prefix(Split1(sym2, leg2_type), ExpirationLen)
         IN  IF both_short
             THEN <<is_short_straddle,
                    ~is_short_straddle /\ ~is_short_calendar,
                    is_short_calendar>>
             ELSE <<FALSE, FALSE, FALSE>>
    ELSE <<FALSE, FALSE, FALSE>>

\* as _analyze_option_strategy_type, with the strangle flag cleared for two calls of
\* different expirations and the calendar flag left as it was
_analyze_option_strategy_type_strangle_cleared(order_legs, order_class) ==
    IF order_class = PyEnum("OrderClass", "MLEG") /\ Len(order_legs) = 2
    THEN LET both_short ==
                 /\ order_legs[1].side = PyEnum("OrderSide", "SELL")
                 /\ order_legs[2].side = PyEnum("OrderSide", "SELL")
             sym1 == order_legs[1].symbol.s
             sym2 == order_legs[2].symbol.s
             is_short_straddle == Split0(sym1, "C") = Split0(sym2, "P")
             leg1_type == IF Contains(sym1, "C") THEN "C" ELSE "P"
             leg2_type == IF Contains(sym2, "C") THEN "C" ELSE "P"
             is_short_calendar ==
                 /\ leg1_type = "C" /\ leg2_type = "C"
                 /\ Prefix(Split1(sym1, leg1_type), ExpirationLen)
                       # Prefix(Split1(sym2, leg2_type), ExpirationLen)
         IN  IF both_short
             THEN <<is_short_straddle,
                    ~is_short_straddle /\ ~is_short_calendar,
                    FALSE>>
             ELSE <<FALSE, FALSE, FALSE>>
    ELSE <<FALSE, FALSE, FALSE>>

\* lines 1731-1763: <<is_short_straddle, is_short_strangle, is_short_calendar>>
_analyze_option_strategy_type(order_legs, order_class) ==
    IF order_class = PyEnum("OrderClass", "MLEG") /\ Len(order_legs) = 2
    THEN LET both_short ==
                 /\ order_legs[1].side = PyEnum("OrderSide", "SELL")
                 /\ order_legs[2].side = PyEnum("OrderSide", "SELL")
             sym1 == order_legs[1].symbol.s
             sym2 == order_legs[2].symbol.s
             is_short_straddle == Split0(sym1, "C") = Split0(sym2, "P")
             leg1_type == IF Contains(sym1, "C") THEN "C" ELSE "P"
             leg2_type == IF Contains(sym2, "C") THEN "C" ELSE "P"
             is_short_calendar ==
                 /\ leg1_type = "C" /\ leg2_type = "C"
                 /\ Prefix(Split1(sym1, leg1_type), ExpirationLen)
                       # Prefix(Split1(sym2, leg2_type), ExpirationLen)
         IN  IF both_short
             THEN <<is_short_straddle,
                    ~is_short_straddle /\ ~is_short_calendar,
                    is_short_calendar>>
             ELSE <<FALSE, FALSE, FALSE>>
    ELSE <<FALSE, FALSE, FALSE>>

\* lines 1766-1785
_get_short_straddle_error_message ==
    PyStr("\n    Error: Account not eligible to trade short straddles.\n\n    This error occurs because short straddles require Level 4 options trading permission.\n    A short straddle involves:\n    - Selling a call option\n    - Selling a put option\n    - Both options have the same strike price and expiration\n\n    Required Account Level:\n    - Level 4 options trading permission is required\n    - Please contact your broker to upgrade your account level if needed\n\n    Alternative Strategies:\n    - Consider using a long straddle instead\n    - Use a debit spread strategy\n    - Implement a covered call or cash-secured put\n    ")

\* lines 1788-1807
_get_short_strangle_error_message ==
    PyStr("\n    Error: Account not eligible to trade short strangles.\n\n    This error occurs because short strangles require Level 4 options trading permission.\n    A short strangle involves:\n    - Selling an out-of-the-money call option\n    - Selling an out-of-the-money put option\n    - Both options have the same expiration\n\n    Required Account Level:\n    - Level 4 options trading permission is required\n    - Please contact your broker to upgrade your account level if needed\n\n    Alternative Strategies:\n    - Consider using a long strangle instead\n    - Use a debit spread strategy\n    - Implement a covered call or cash-secured put\n    ")

\* lines 1810-1829
_get_short_calendar_error_message ==
    PyStr("\n    Error: Account not eligible to trade short calendar spreads.\n\n    This error occurs because short calendar spreads require Level 4 options trading permission.\n    A short calendar spread involves:\n    - Selling a longer-term option\n    - Selling a shorter-term option\n    - Both options have the same strike price\n\n    Required Account Level:\n    - Level 4 options trading permission is required\n    - Please contact your broker to upgrade your account level if needed\n\n    Alternative Strategies:\n    - Consider using a long calendar spread instead\n    - Use a debit spread strategy\n    - Implement a covered call or cash-secured put\n    ")

\* lines 1832-1851
_get_uncovered_options_error_message ==
    PyStr("\n    Error: Account not eligible to trade uncovered option contracts.\n\n    This error occurs when attempting to place an order that could result in an uncovered position.\n    Common scenarios include:\n    1. Selling naked calls\n    2. Calendar spreads where the short leg expires after the long leg\n    3. Other strategies that could leave uncovered positions\n\n    Required Account Level:\n    - Level 4 options trading permission is required for uncovered options\n    - Please contact your broker to upgrade your account level if needed\n\n    Alternative Strategies:\n    - Consider using covered calls instead of naked calls\n    - Use debit spreads instead of calendar spreads\n    - Ensure all positions are properly hedged\n    ")

\* lines 1876-1891
PermissionDenied(error_message) ==
    PyStr("\n        Error: Permission denied for option trading.\n\n        Possible reasons:\n        1. Insufficient account level for the requested strategy\n        2. Account restrictions on option trading\n        3. Missing required permissions\n\n        Please check:\n        1. Your account's option trading level\n        2. Any specific restrictions on your account\n        3. Required permissions for the strategy you're trying to implement\n\n        Original error: "
          \o error_message \o "\n        ")

\* lines 1892-1901
OrderPlacementFailure(error_message) ==
    PyStr("\n        Error placing option order: " \o error_message
          \o "\n\n        Please check:\n        1. All option symbols are valid\n        2. Your account has sufficient buying power\n        3. The market is open for trading\n        4. Your account has the required permissions\n        ")

\* as _handle_option_api_error, with the test for "403" first
_handle_option_api_error_403_first(error_message, order_legs, order_class) ==
    IF Contains(error_message, "403") THEN PermissionDenied(error_message)
    ELSE IF Contains(error_message, "40310000")
       /\ Contains(error_message, "not eligible to trade uncovered option contracts")
    THEN LET flags == _analyze_option_strategy_type(order_legs, order_class) IN
         IF flags[1] THEN _get_short_straddle_error_message
         ELSE IF flags[2] THEN _get_short_strangle_error_message
         ELSE IF flags[3] THEN _get_short_calendar_error_message
         ELSE _get_uncovered_options_error_message
    ELSE OrderPlacementFailure(error_message)

\* as _handle_option_api_error, without the strategy analysis
_handle_option_api_error_unclassified(error_message, order_legs, order_class) ==
    IF Contains(error_message, "40310000")
       /\ Contains(error_message, "not eligible to trade uncovered option contracts")
    THEN _get_uncovered_options_error_message
    ELSE IF Contains(error_message, "403") THEN PermissionDenied(error_message)
    ELSE OrderPlacementFailure(error_message)

\* lines 1854-1901
_handle_option_api_error(error_message, order_legs, order_class) ==
    IF Contains(error_message, "40310000")
       /\ Contains(error_message, "not eligible to trade uncovered option contracts")
    THEN LET flags == _analyze_option_strategy_type(order_legs, order_class) IN
         IF flags[1] THEN _get_short_straddle_error_message
         ELSE IF flags[2] THEN _get_short_strangle_error_message
         ELSE IF flags[3] THEN _get_short_calendar_error_message
         ELSE _get_uncovered_options_error_message
    ELSE IF Contains(error_message, "403") THEN PermissionDenied(error_message)
    ELSE OrderPlacementFailure(error_message)

\* lines 2004-2013
UnexpectedError(msg) ==
    PyStr("\n        Unexpected error placing option order: " \o msg
          \o "\n\n        Please try:\n        1. Verifying all input parameters\n        2. Checking your account status\n        3. Ensuring market is open\n        4. Contacting support if the issue persists\n        ")

(***************************************************************************)
(* place_option_market_order, up to the call of submit_order.              *)
(***************************************************************************)
\* as DefaultOrderClass, with ">= 1" for "> 1"
DefaultOrderClass_one_leg_mleg(order_class, legs) ==
    IF IsNone(order_class)
    THEN (IF Len(legs) >= 1 THEN PyEnum("OrderClass", "MLEG")
          ELSE PyEnum("OrderClass", "SIMPLE"))
    ELSE order_class

\* lines 1980-1982
DefaultOrderClass(order_class, legs) ==
    IF IsNone(order_class)
    THEN (IF Len(legs) > 1 THEN PyEnum("OrderClass", "MLEG")
          ELSE PyEnum("OrderClass", "SIMPLE"))
    ELSE order_class

\* as OptionProcessAndSubmit, with the legs analysed before the order is submitted
OptionProcessAndSubmit_analysed_first(a, order_class, t) ==
    LET processed_legs == _process_option_legs(a.legs) IN
    IF processed_legs.k = "raise" THEN processed_legs
    ELSE IF IsStr(processed_legs.v) THEN Return(processed_legs.v)
    ELSE IF _analyze_option_strategy_type(processed_legs.v.items, order_class)
                # <<FALSE, FALSE, FALSE>>
    THEN Return(_handle_option_api_error(
                    "40310000 not eligible to trade uncovered option contracts",
                    processed_legs.v.items, order_class))
    ELSE Submit(_create_option_market_order_request(processed_legs.v.items, order_class,
                    a.quantity, a.time_in_force, a.extended_hours, t),
                processed_legs.v.items, order_class)

\* lines 1984-1996
OptionProcessAndSubmit(a, order_class, t) ==
    LET processed_legs == _process_option_legs(a.legs) IN
    IF processed_legs.k = "raise" THEN processed_legs
    ELSE IF IsStr(processed_legs.v) THEN Return(processed_legs.v)
    ELSE Submit(_create_option_market_order_request(processed_legs.v.items, order_class,
                    a.quantity, a.time_in_force, a.extended_hours, t),
                processed_legs.v.items, order_class)

\* as OptionTryBody, with the order class converted before the inputs are validated
OptionTryBody_class_first(a, t) ==
    LET validation_error ==
            _validate_option_order_inputs(a.legs, a.quantity, a.time_in_force)
        converted_order_class == _convert_order_class_string(a.order_class)
    IN  IF converted_order_class.t # "OrderClass" /\ IsStr(converted_order_class)
        THEN Return(converted_order_class)
        ELSE IF Truthy(validation_error) THEN Return(validation_error)
        ELSE IF converted_order_class.t = "OrderClass"
        THEN OptionProcessAndSubmit(a, DefaultOrderClass(converted_order_class, a.legs), t)
        ELSE OptionProcessAndSubmit(a, DefaultOrderClass(a.order_class, a.legs), t)

\* lines 1968-1996
OptionTryBody(a, t) ==
    LET validation_error ==
            _validate_option_order_inputs(a.legs, a.quantity, a.time_in_force)
        converted_order_class == _convert_order_class_string(a.order_class)
    IN  IF Truthy(validation_error) THEN Return(validation_error)
        ELSE IF converted_order_class.t = "OrderClass"
        THEN OptionProcessAndSubmit(a, DefaultOrderClass(converted_order_class, a.legs), t)
        ELSE IF IsStr(converted_order_class) THEN Return(converted_order_class)
        ELSE OptionProcessAndSubmit(a, DefaultOrderClass(a.order_class, a.legs), t)

\* as OptionExcept, with the clause "except Exception" first
OptionExcept_Exception_first(o, order_legs, order_class) ==
    IF o.k = "raise" THEN Return(UnexpectedError(o.msg)) ELSE o

\* as OptionExcept, without the clause "except Exception"
OptionExcept_only_APIError(o, order_legs, order_class) ==
    IF o.k = "raise" /\ o.exc = "APIError"
    THEN Return(_handle_option_api_error(o.msg, order_legs, order_class))
    ELSE o

\* lines 2001-2013: the two except clauses
OptionExcept(o, order_legs, order_class) ==
    IF o.k # "raise" THEN o
    ELSE IF o.exc = "APIError"
    THEN Return(_handle_option_api_error(o.msg, order_legs, order_class))
    ELSE Return(UnexpectedError(o.msg))

(***************************************************************************)
(* The tools' arguments tried.                                             *)
(***************************************************************************)
Sides == {PyStr("buy"), PyStr("SELL"), PyStr("Sell"), PyStr("hold"), PyNone}

StockTimeInForces ==
    {PyStr("day"), PyStr("GTC"), PyStr("Opg"), PyStr("cls"), PyStr("ioc"), PyStr("FoK"),
     PyStr("gtd"), PyEnum("TimeInForce", "DAY"), PyEnum("TimeInForce", "IOC"), PyInt(1)}

OrderTypes ==
    {PyStr("market"), PyStr("LIMIT"), PyStr("Stop"), PyStr("stop_limit"),
     PyStr("Trailing_Stop"), PyStr("trailing-stop"), PyNone}

Prices == {PyNone, PyFloat(5)}
Quantities == {PyFloat(0), PyFloat(1)}
ClientOrderIds == {PyNone, PyStr("cid-7")}

StockArgs ==
    [symbol : {PyStr("AAPL")},
     side : Sides,
     quantity : Quantities,
     order_type : OrderTypes,
     time_in_force : StockTimeInForces,
     limit_price : Prices,
     stop_price : Prices,
     trail_price : Prices,
     trail_percent : Prices,
     extended_hours : {PyBool(FALSE)},
     client_order_id : ClientOrderIds]

Leg(symbol, side, ratio_qty) ==
    [symbol |-> PyStr(symbol), side |-> side, ratio_qty |-> ratio_qty]

SellCall == Leg("TSLA250620C00500000", PyStr("sell"), PyInt(1))
SellPut == Leg("TSLA250620P00500000", PyStr("SELL"), PyInt(1))
BuyCall == Leg("TSLA250718C00550000", PyStr("Buy"), PyInt(2))
SellCall550 == Leg("TSLA250620C00550000", PyStr("sell"), PyInt(1))

\* legs of every shape, for the lists of up to two legs
LegPool ==
    {SellCall, SellPut, BuyCall, SellCall550,
     Leg("TSLA250718C00500000", PyStr("sell"), PyInt(5)),
     Leg("AAPL250620P00150000", PyStr("sell"), PyInt(0)),
     Leg("AAPL250620C00150000", PyStr("buy"), PyStr("1")),
     Leg("AAPL250620C00160000", PyStr("hold"), PyInt(1)),
     Leg("AAPL250620C00170000", PyNone, PyInt(1)),
     [symbol |-> PyStr("AAPL250620C00180000"), ratio_qty |-> PyInt(1)],
     [symbol |-> PyStr("AAPL250620C00190000"), side |-> PyStr("buy")]}

\* legs for the longer lists
SmallLegPool == {SellCall, BuyCall, Leg("AAPL250620P00150000", PyStr("sell"), PyInt(0))}

MaxLegsTried == 5

LegLists ==
    {<<>>} \cup {<<l>> : l \in LegPool} \cup {<<l, m>> : l \in LegPool, m \in LegPool}
    \cup UNION {[1..n -> SmallLegPool] : n \in 3..MaxLegsTried}

OrderClasses ==
    {PyNone, PyStr("mleg"), PyStr("Simple"), PyStr("BRACKET"), PyStr("oco"), PyStr("Oto"),
     PyStr("spread"), PyEnum("OrderClass", "MLEG")}

OptionArgs ==
    [legs : LegLists,
     order_class : OrderClasses,
     quantity : {PyInt(0), PyInt(1)},
     time_in_force : {PyEnum("TimeInForce", "DAY"), PyEnum("TimeInForce", "GTC")},
     extended_hours : {PyBool(FALSE)}]

(***************************************************************************)
(* What trade_client.submit_order can do with a request.                   *)
(***************************************************************************)
UncoveredText ==
    "{\"code\":40310000,\"message\":\"account not eligible to trade uncovered option contracts\"}"

ApiErrorTexts ==
    {UncoveredText,
     "{\"code\":40310000,\"message\":\"insufficient options buying power\"}",
     "account not eligible to trade uncovered option contracts",
     "403 Forbidden",
     "{\"code\":42210000,\"message\":\"asset not found\"}"}

OtherErrors == {Raise("ConnectionError", "Connection aborted.")}

ClientRaises == {Raise("APIError", m) : m \in ApiErrorTexts} \cup OtherErrors

\* the Order the client returns for a request
OrderOf(req) == req @@ [id |-> "ord-1", status |-> "OrderStatus.ACCEPTED"]

(***************************************************************************)
(* The server: one invocation at a time (the tools never await).           *)
(***************************************************************************)
Init ==
    /\ pc = "idle"
    /\ call = NoCall
    /\ submitted = <<>>
    /\ reply = NoOutcome
    /\ outcome = NoOutcome
    /\ now = 0

Tick ==
    /\ pc = "idle"
    /\ now < MaxClock
    /\ now' = now + 1
    /\ UNCHANGED <<pc, call, submitted, reply, outcome>>

\* Run the code from the tool's entry to its first return or to submit_order
Enter(tool, a, o) ==
    /\ call' = [tool |-> tool, args |-> a]
    /\ reply' = NoOutcome
    /\ IF o.k = "submit"
       THEN /\ pc' = "awaiting"
            /\ submitted' = <<o>>
            /\ outcome' = NoOutcome
       ELSE /\ pc' = "done"
            /\ submitted' = <<>>
            /\ outcome' = o
    /\ UNCHANGED now

place_stock_order_call ==
    /\ pc = "idle"
    /\ \E a \in StockArgs : Enter("place_stock_order", a, StockExcept(StockTryBody(a, now)))

\* lines 888-902: submit_order returns
place_stock_order_returns ==
    /\ pc = "awaiting"
    /\ call.tool = "place_stock_order"
    /\ pc' = "done"
    /\ reply' = Return(OrderOf(submitted[Len(submitted)].req))
    /\ outcome' = StockExcept(StockOrderPlaced(OrderOf(submitted[Len(submitted)].req)))
    /\ UNCHANGED <<call, submitted, now>>

\* as place_stock_order_raises, with the order submitted again after a failure
place_stock_order_raises_retry ==
    /\ pc = "awaiting"
    /\ call.tool = "place_stock_order"
    /\ Len(submitted) < 2
    /\ \E e \in ClientRaises :
          /\ reply' = e
          /\ submitted' = Append(submitted, submitted[Len(submitted)])
    /\ UNCHANGED <<pc, call, outcome, now>>

\* lines 888, 901-902: submit_order raises
place_stock_order_raises ==
    /\ pc = "awaiting"
    /\ call.tool = "place_stock_order"
    /\ \E e \in ClientRaises :
          /\ pc' = "done"
          /\ reply' = e
          /\ outcome' = StockExcept(e)
    /\ UNCHANGED <<call, submitted, now>>

place_option_market_order_call ==
    /\ pc = "idle"
    /\ \E a \in OptionArgs :
          Enter("place_option_market_order", a,
                OptionExcept(OptionTryBody(a, now), <<>>, a.order_class))

\* lines 1996-2013: submit_order returns
place_option_market_order_returns ==
    /\ pc = "awaiting"
    /\ call.tool = "place_option_market_order"
    /\ LET s == submitted[Len(submitted)] IN
       /\ pc' = "done"
       /\ reply' = Return(OrderOf(s.req))
       /\ outcome' = OptionExcept(
                        Return(_format_option_order_response(OrderOf(s.req), s.cls, s.legs)),
                        s.legs, s.cls)
    /\ UNCHANGED <<call, submitted, now>>

\* lines 1996, 2001-2013: submit_order raises
place_option_market_order_raises ==
    /\ pc = "awaiting"
    /\ call.tool = "place_option_market_order"
    /\ \E e \in ClientRaises :
          LET s == submitted[Len(submitted)] IN
          /\ pc' = "done"
          /\ reply' = e
          /\ outcome' = OptionExcept(e, s.legs, s.cls)
    /\ UNCHANGED <<call, submitted, now>>

\* the result goes back to the caller; the server takes the next call
Finish ==
    /\ pc = "done"
    /\ pc' = "idle"
    /\ call' = NoCall
    /\ submitted' = <<>>
    /\ reply' = NoOutcome
    /\ outcome' = NoOutcome
    /\ UNCHANGED now

Next ==
    \/ Tick
    \/ place_stock_order_call
    \/ place_stock_order_returns
    \/ place_stock_order_raises
    \/ place_option_market_order_call
    \/ place_option_market_order_returns
    \/ place_option_market_order_raises
    \/ Finish

Spec == Init /\ [][Next]_vars

\* the stock tool alone, and the option tool alone
NextStock ==
    \/ Tick
    \/ place_stock_order_call
    \/ place_stock_order_returns
    \/ place_stock_order_raises
    \/ Finish

SpecStock == Init /\ [][NextStock]_vars

NextOption ==
    \/ Tick
    \/ place_option_market_order_call
    \/ place_option_market_order_returns
    \/ place_option_market_order_raises
    \/ Finish

SpecOption == Init /\ [][NextOption]_vars

(***************************************************************************)
(* A session: the server process takes several calls, one after the other, *)
(* and every request passed to trade_client.submit_order stays on record,  *)
(* with the call that built it.                                            *)
(***************************************************************************)
MaxSessionOrders == 2

SessionStockArgs ==
    {a \in StockArgs :
        /\ a.side = PyStr("buy")
        /\ a.quantity = PyFloat(1)
        /\ a.order_type \in {PyStr("market"), PyStr("LIMIT")}
        /\ a.time_in_force = PyStr("day")
        /\ a.limit_price = PyFloat(5)
        /\ a.stop_price = PyNone
        /\ a.trail_price = PyNone
        /\ a.trail_percent = PyNone}

SessionOptionArgs ==
    {a \in OptionArgs :
        /\ a.legs \in {<<SellCall>>, <<SellCall, SellPut>>}
        /\ a.order_class = PyNone
        /\ a.quantity = PyInt(1)
        /\ a.time_in_force = PyEnum("TimeInForce", "DAY")}

\* as Enter, with the request added to the session's record
SessionEnter(tool, a, o) ==
    /\ call' = [tool |-> tool, args |-> a]
    /\ reply' = NoOutcome
    /\ IF o.k = "submit"
       THEN /\ pc' = "awaiting"
            /\ submitted' = Append(submitted, o @@ [call |-> [tool |-> tool, args |-> a]])
            /\ outcome' = NoOutcome
       ELSE /\ pc' = "done"
            /\ submitted' = submitted
            /\ outcome' = o
    /\ UNCHANGED now

session_place_stock_order_call ==
    /\ pc = "idle"
    /\ Len(submitted) < MaxSessionOrders
    /\ \E a \in SessionStockArgs :
          SessionEnter("place_stock_order", a, StockExcept(StockTryBody(a, now)))

session_place_option_market_order_call ==
    /\ pc = "idle"
    /\ Len(submitted) < MaxSessionOrders
    /\ \E a \in SessionOptionArgs :
          SessionEnter("place_option_market_order", a,
                       OptionExcept(OptionTryBody(a, now), <<>>, a.order_class))

\* the result goes back to the caller; the process goes on
SessionFinish ==
    /\ pc = "done"
    /\ pc' = "idle"
    /\ call' = NoCall
    /\ reply' = NoOutcome
    /\ outcome' = NoOutcome
    /\ UNCHANGED <<submitted, now>>

NextSession ==
    \/ Tick
    \/ session_place_stock_order_call
    \/ place_stock_order_returns
    \/ place_stock_order_raises
    \/ session_place_option_market_order_call
    \/ place_option_market_order_returns
    \/ place_option_market_order_raises
    \/ SessionFinish

SpecSession == Init /\ [][NextSession]_vars

(***************************************************************************)
(* parse_timeframe_with_enums: str.strip(), the literal shortcuts, the     *)
(* pattern ^(\d+)(Min|Hour|Day|Week|Month)$ matched without regard to      *)
(* case, int() of the digits and the ceilings of the units.                *)
(***************************************************************************)
Whitespace == {" ", "\t", "\n"}

RECURSIVE lstrip(_)
lstrip(s) ==
    IF Len(s) > 0 /\ CharAt(s, 1) \in Whitespace THEN lstrip(SubSeq(s, 2, Len(s))) ELSE s

RECURSIVE rstrip(_)
rstrip(s) ==
    IF Len(s) > 0 /\ CharAt(s, Len(s)) \in Whitespace
    THEN rstrip(SubSeq(s, 1, Len(s) - 1))
    ELSE s

strip(s) == rstrip(lstrip(s))

IsDigit(c) == \E i \in 1..Len(Digits) : CharAt(Digits, i) = c
DigitValue(c) == (CHOOSE i \in 1..Len(Digits) : CharAt(Digits, i) = c) - 1

\* the number of characters that (\d+) takes at the start of s: all the leading digits
RECURSIVE LeadingDigits(_)
LeadingDigits(s) ==
    IF Len(s) > 0 /\ IsDigit(CharAt(s, 1)) THEN 1 + LeadingDigits(SubSeq(s, 2, Len(s))) ELSE 0

\* int(s) of a string of digits
RECURSIVE int(_)
int(s) ==
    IF Len(s) = 0 THEN 0
    ELSE 10 * int(SubSeq(s, 1, Len(s) - 1)) + DigitValue(CharAt(s, Len(s)))

TimeFrame(amount, unit) == [t |-> "TimeFrame", amount |-> amount, unit |-> unit]

\* lines 2035-2041
predefined_timeframes ==
    [k \in {"1Min", "1Hour", "1Day", "1Week", "1Month"} |->
        CASE k = "1Min" -> TimeFrame(1, "Minute")
          [] k = "1Hour" -> TimeFrame(1, "Hour")
          [] k = "1Day" -> TimeFrame(1, "Day")
          [] k = "1Week" -> TimeFrame(1, "Week")
          [] k = "1Month" -> TimeFrame(1, "Month")]

\* lines 2058-2064
unit_mapping ==
    [k \in {"min", "hour", "day", "week", "month"} |->
        CASE k = "min" -> "Minute"
          [] k = "hour" -> "Hour"
          [] k = "day" -> "Day"
          [] k = "week" -> "Week"
          [] k = "month" -> "Month"]

MaxMinutes == 59
MaxHours == 23
MaxDays == 365

\* lines 2070-2084: the ceilings, then the TimeFrame
ValidatedTimeFrame(amount, unit) ==
    IF unit = "Minute" /\ amount > MaxMinutes THEN PyNone
    ELSE IF unit = "Hour" /\ amount > MaxHours THEN PyNone
    ELSE IF unit \in {"Day", "Week", "Month"} /\ amount > MaxDays THEN PyNone
    ELSE TimeFrame(amount, unit)

\* as parse_timeframe_with_enums, with the unit word matched as it is written
parse_timeframe_with_enums_case_sensitive(timeframe_str) ==
    IF ~IsStr(timeframe_str) THEN PyNone
    ELSE LET stripped == strip(timeframe_str.s)
             n == LeadingDigits(stripped)
             unit_str == SubSeq(stripped, n + 1, Len(stripped))
         IN  IF stripped \in DOMAIN predefined_timeframes
             THEN predefined_timeframes[stripped]
             ELSE IF n = 0 \/ unit_str \notin DOMAIN unit_mapping THEN PyNone
             ELSE ValidatedTimeFrame(int(SubSeq(stripped, 1, n)), unit_mapping[unit_str])

\* lines 2016-2087
parse_timeframe_with_enums(timeframe_str) ==
    IF ~IsStr(timeframe_str) THEN PyNone
    ELSE LET stripped == strip(timeframe_str.s)
             n == LeadingDigits(stripped)
             unit_str == lower(SubSeq(stripped, n + 1, Len(stripped)))
         IN  IF stripped \in DOMAIN predefined_timeframes
             THEN predefined_timeframes[stripped]
             ELSE IF n = 0 \/ unit_str \notin DOMAIN unit_mapping THEN PyNone
             ELSE ValidatedTimeFrame(int(SubSeq(stripped, 1, n)), unit_mapping[unit_str])

(***************************************************************************)
(* The strategy classifier and the error mapper called on their own, on    *)
(* leg objects of every shape: both are plain functions of their           *)
(* arguments.                                                              *)
(***************************************************************************)
\* line 1932: an option contract symbol, e.g. 'AAPL230616C00150000'
OptionSymbol(ticker, expiration, type, strike) == ticker \o expiration \o type \o strike

Tickers == {"TSLA", "AAPL", "CSCO", "AC", "APC"}
Expirations == {"250620", "250718"}
OptionTypes == {"C", "P"}
Strikes == {"00500000", "00550000"}

OptionSymbols ==
    {OptionSymbol(k, e, ty, s) : k \in Tickers, e \in Expirations, ty \in OptionTypes, s \in Strikes}

ClassifierLegs ==
    {OptionLegRequest(PyStr(sym), side, PyInt(1)) : sym \in OptionSymbols, side \in {"BUY", "SELL"}}

ClassifierLegLists ==
    {<<>>} \cup {<<l>> : l \in ClassifierLegs} \cup {<<l, m>> : l \in ClassifierLegs, m \in ClassifierLegs}
    \cup {<<l, l, l>> : l \in ClassifierLegs}

ClassifierCalls ==
    {[tool |-> "_analyze_option_strategy_type",
      args |-> [order_legs |-> legs, order_class |-> PyEnum("OrderClass", c)]] :
        legs \in ClassifierLegLists, c \in OrderClassNames}

\* for the mapper, the legs of three of the tickers
MapperLegs == {l \in ClassifierLegs : \E k \in {"TSLA", "AC", "APC"} : StartsWith(l.symbol.s, k)}

MapperLegLists ==
    {<<>>} \cup {<<l>> : l \in MapperLegs} \cup {<<l, m>> : l \in MapperLegs, m \in MapperLegs}
    \cup {<<l, l, l>> : l \in MapperLegs}

MapperCalls ==
    {[tool |-> "_handle_option_api_error",
      args |-> [error_message |-> m, order_legs |-> legs, order_class |-> PyEnum("OrderClass", c)]] :
        m \in ApiErrorTexts, legs \in MapperLegLists, c \in {"MLEG", "SIMPLE"}}

\* the timeframe strings tried: an amount, a unit word, white space around them
AmountStrings ==
    {"", "0", "1", "01", "5", "23", "24", "45", "59", "60", "300", "365", "366", "400",
     "-1", "+5", "1.5", "1 "}

UnitWords ==
    {"", "Min", "min", "MIN", "Hour", "hOUR", "Day", "day", "Week", "Month", "month",
     "Sec", "Minute", "Mins", "M", "Min1", "MinHour"}

Paddings == {<<"", "">>, <<" ", "">>, <<"", "\n">>, <<"\t ", " ">>}

TimeframeStrings ==
    {pad[1] \o amount \o unit \o pad[2] :
        amount \in AmountStrings, unit \in UnitWords, pad \in Paddings}

ParserCalls ==
    {[tool |-> "parse_timeframe_with_enums", args |-> [timeframe_str |-> v]] :
        v \in {PyStr(str) : str \in TimeframeStrings} \cup {PyNone, PyInt(5)}}

InitHelpers ==
    /\ pc = "idle"
    /\ call \in ClassifierCalls \cup MapperCalls \cup ParserCalls
    /\ submitted = <<>>
    /\ reply = NoOutcome
    /\ outcome = NoOutcome
    /\ now = 0

_analyze_option_strategy_type_call ==
    /\ pc = "idle"
    /\ call.tool = "_analyze_option_strategy_type"
    /\ pc' = "done"
    /\ outcome' = Return(_analyze_option_strategy_type(call.args.order_legs,
                                                        call.args.order_class))
    /\ UNCHANGED <<call, submitted, reply, now>>

_handle_option_api_error_call ==
    /\ pc = "idle"
    /\ call.tool = "_handle_option_api_error"
    /\ pc' = "done"
    /\ outcome' = Return(_handle_option_api_error(call.args.error_message,
                                                   call.args.order_legs,
                                                   call.args.order_class))
    /\ UNCHANGED <<call, submitted, reply, now>>

parse_timeframe_with_enums_call ==
    /\ pc = "idle"
    /\ call.tool = "parse_timeframe_with_enums"
    /\ pc' = "done"
    /\ outcome' = Return(parse_timeframe_with_enums(call.args.timeframe_str))
    /\ UNCHANGED <<call, submitted, reply, now>>

NextHelpers ==
    \/ _analyze_option_strategy_type_call
    \/ _handle_option_api_error_call
    \/ parse_timeframe_with_enums_call

SpecHelpers == InitHelpers /\ [][NextHelpers]_vars

(***************************************************************************)
(* The helpers called one after the other, in any order and any number of  *)
(* times, on arguments the caller keeps.  reply holds, for every call, the *)
(* result the first call of it gave.                                       *)
(***************************************************************************)
SellCallRequest == OptionLegRequest(PyStr("TSLA250620C00500000"), "SELL", PyInt(1))
SellPutRequest == OptionLegRequest(PyStr("TSLA250620P00500000"), "SELL", PyInt(1))

SequenceCalls ==
    {[tool |-> "parse_timeframe_with_enums", args |-> [timeframe_str |-> v]] :
        v \in {PyStr(" 5min\n"), PyStr("60Min"), PyNone}}
    \cup {[tool |-> "_validate_option_order_inputs",
           args |-> [legs |-> <<SellCall>>, quantity |-> q,
                     time_in_force |-> PyEnum("TimeInForce", "DAY")]] :
              q \in {PyInt(0), PyInt(1)}}
    \cup {[tool |-> "_process_option_legs", args |-> [legs |-> legs]] :
              legs \in {<<SellCall, BuyCall>>,
                        <<SellCall, Leg("AAPL250620P00150000", PyStr("sell"), PyInt(0))>>}}
    \cup {[tool |-> "_convert_order_class_string", args |-> [order_class |-> c]] :
              c \in {PyStr("mleg"), PyStr("spread")}}
    \cup {[tool |-> "_analyze_option_strategy_type",
           args |-> [order_legs |-> <<SellCallRequest, SellPutRequest>>,
                     order_class |-> PyEnum("OrderClass", "MLEG")]]}
    \cup {[tool |-> "_handle_option_api_error",
           args |-> [error_message |-> UncoveredText,
                     order_legs |-> <<SellCallRequest, SellPutRequest>>,
                     order_class |-> PyEnum("OrderClass", "MLEG")]]}

InitSequence ==
    /\ pc = "idle"
    /\ call = NoCall
    /\ submitted = <<>>
    /\ reply = [c \in SequenceCalls |-> NoOutcome]
    /\ outcome = NoOutcome
    /\ now = 0

\* the helper is called with the arguments of c and gives the result o
HelperCalled(c, o) ==
    /\ pc = "idle"
    /\ pc' = "done"
    /\ call' = c
    /\ outcome' = o
    /\ reply' = [reply EXCEPT ![c] = IF @ = NoOutcome THEN o ELSE @]
    /\ UNCHANGED <<submitted, now>>

parse_timeframe_with_enums_in_sequence ==
    \E c \in SequenceCalls :
        /\ c.tool = "parse_timeframe_with_enums"
        /\ HelperCalled(c, Return(parse_timeframe_with_enums(c.args.timeframe_str)))

_validate_option_order_inputs_in_sequence ==
    \E c \in SequenceCalls :
        /\ c.tool = "_validate_option_order_inputs"
        /\ HelperCalled(c, Return(_validate_option_order_inputs(
                                      c.args.legs, c.args.quantity, c.args.time_in_force)))

\* as _process_option_legs_in_sequence, with the list order_legs kept from the
\* call before (a list made once, not once per call)
_process_option_legs_in_sequence_kept_list ==
    \E c \in SequenceCalls :
        /\ c.tool = "_process_option_legs"
        /\ HelperCalled(c, ProcessLegsFrom(c.args.legs, 1,
                               IF reply[c].k = "return" /\ reply[c].v.t = "list"
                               THEN reply[c].v.items ELSE <<>>))

_process_option_legs_in_sequence ==
    \E c \in SequenceCalls :
        /\ c.tool = "_process_option_legs"
        /\ HelperCalled(c, _process_option_legs(c.args.legs))

_convert_order_class_string_in_sequence ==
    \E c \in SequenceCalls :
        /\ c.tool = "_convert_order_class_string"
        /\ HelperCalled(c, Return(_convert_order_class_string(c.args.order_class)))

_analyze_option_strategy_type_in_sequence ==
    \E c \in SequenceCalls :
        /\ c.tool = "_analyze_option_strategy_type"
        /\ HelperCalled(c, Return(_analyze_option_strategy_type(
                                      c.args.order_legs, c.args.order_class)))

_handle_option_api_error_in_sequence ==
    \E c \in SequenceCalls :
        /\ c.tool = "_handle_option_api_error"
        /\ HelperCalled(c, Return(_handle_option_api_error(
                                      c.args.error_message, c.args.order_legs,
                                      c.args.order_class)))

\* the helper's result goes back to its caller
HelperReturns ==
    /\ pc = "done"
    /\ pc' = "idle"
    /\ call' = NoCall
    /\ outcome' = NoOutcome
    /\ UNCHANGED <<submitted, reply, now>>

NextSequence ==
    \/ Tick
    \/ parse_timeframe_with_enums_in_sequence
    \/ _validate_option_order_inputs_in_sequence
    \/ _process_option_legs_in_sequence
    \/ _convert_order_class_string_in_sequence
    \/ _analyze_option_strategy_type_in_sequence
    \/ _handle_option_api_error_in_sequence
    \/ HelperReturns

SpecSequence == InitSequence /\ [][NextSequence]_vars

(***************************************************************************)
(* What the tools' validation asks of the arguments, stated on the         *)
(* arguments alone.                                                        *)
(***************************************************************************)
Args == call.args
IsStockCall == call.tool = "place_stock_order"
IsOptionCall == call.tool = "place_option_market_order"
Result == outcome.v.s

ValidSide(v) == IsStr(v) /\ lower(v.s) \in {"buy", "sell"}
ValidStockTimeInForce(v) ==
    \/ v.t = "TimeInForce"
    \/ IsStr(v) /\ upper(v.s) \in TimeInForceNames
OrderTypeIs(a, type) == IsStr(a.order_type) /\ upper(a.order_type.s) = type
Present(v) == ~IsNone(v)

RequiredPricesPresent(a) ==
    /\ IsStr(a.order_type)
    /\ LET type == upper(a.order_type.s) IN
       \/ type = "MARKET"
       \/ type = "LIMIT" /\ Present(a.limit_price)
       \/ type = "STOP" /\ Present(a.stop_price)
       \/ type = "STOP_LIMIT" /\ Present(a.stop_price) /\ Present(a.limit_price)
       \/ type = "TRAILING_STOP" /\ (Present(a.trail_price) \/ Present(a.trail_percent))

StockArgsValid(a) ==
    ValidSide(a.side) /\ ValidStockTimeInForce(a.time_in_force) /\ RequiredPricesPresent(a)

ValidLeg(leg) ==
    /\ DOMAIN leg = {"symbol", "side", "ratio_qty"}
    /\ leg.ratio_qty.t = "int" /\ leg.ratio_qty.n > 0
    /\ ValidSide(leg.side)

OptionPreconditions(a) ==
    /\ Len(a.legs) \in 1..MaxOptionLegs
    /\ a.quantity.n > 0
    /\ a.time_in_force = PyEnum("TimeInForce", "DAY")

ValidOrderClass(v) ==
    \/ IsNone(v)
    \/ v.t = "OrderClass"
    \/ IsStr(v) /\ upper(v.s) \in OrderClassNames

OptionArgsValid(a) ==
    /\ OptionPreconditions(a)
    /\ ValidOrderClass(a.order_class)
    /\ \A i \in 1..Len(a.legs) : ValidLeg(a.legs[i])

ArgsValid ==
    \/ IsStockCall /\ StockArgsValid(Args)
    \/ IsOptionCall /\ OptionArgsValid(Args)

ClientRaised == reply.k = "raise"

(***************************************************************************)
(* C1: in every invocation of place_stock_order and of                     *)
(* place_option_market_order, submit_order is called at most once (a       *)
(* failure of the client is not retried), and it is called only when every *)
(* validation of the arguments has passed: an invocation whose arguments   *)
(* fail validation ends with no call of the trading client.                *)
(***************************************************************************)
C1_SubmitAtMostOnceAfterValidation ==
    /\ Len(submitted) <= 1
    /\ (Len(submitted) >= 1 => ArgsValid)
    /\ (pc = "done" /\ ~ArgsValid => submitted = <<>>)
    /\ (pc = "done" /\ ClientRaised => Len(submitted) = 1)

\* an option order of two legs, submitted once, failed by the client and not retried
C1_Witness ==
    /\ pc = "done" /\ ClientRaised /\ Len(submitted) = 1
    /\ IsOptionCall /\ Len(Args.legs) = 2

(***************************************************************************)
(* C2: for every argument combination (legs without a key, a side that is  *)
(* not a string) and every exception of the trading client, both tools end *)
(* by returning a string and propagate no exception; in the option tool an *)
(* exception that is not an APIError gives the "Unexpected error placing   *)
(* option order" text; after the return the server takes the next call.    *)
(***************************************************************************)
C2_AlwaysReturnsString ==
    /\ (pc = "done" => outcome.k = "return" /\ IsStr(outcome.v))
    /\ (pc = "done" /\ IsOptionCall /\ ClientRaised /\ reply.exc # "APIError"
            => Contains(Result, "Unexpected error placing option order: " \o reply.msg))
    /\ (pc = "done" /\ IsOptionCall /\ OptionPreconditions(Args)
            /\ ValidOrderClass(Args.order_class)
            /\ (\E i \in 1..Len(Args.legs) :
                    /\ \A j \in 1..(i - 1) : ValidLeg(Args.legs[j])
                    /\ \/ "ratio_qty" \notin DOMAIN Args.legs[i]
                       \/ /\ {"ratio_qty", "side"} \subseteq DOMAIN Args.legs[i]
                          /\ Args.legs[i].ratio_qty.t = "int" /\ Args.legs[i].ratio_qty.n > 0
                          /\ ~IsStr(Args.legs[i].side))
            => Contains(Result, "Unexpected error placing option order"))
    /\ (pc = "done" => ENABLED Finish)
    /\ (pc = "idle" => ENABLED place_option_market_order_call /\ ENABLED place_stock_order_call)

\* the option tool has returned the unexpected-error text for a leg without "side"
C2_Witness ==
    /\ pc = "done" /\ IsOptionCall /\ submitted = <<>>
    /\ \E i \in 1..Len(Args.legs) : "side" \notin DOMAIN Args.legs[i]
    /\ outcome.k = "return"
    /\ Contains(Result, "Unexpected error placing option order: 'side'")

(***************************************************************************)
(* C3 (as stated): every error the trading client raises when an order is  *)
(* submitted, stock or option, comes back as one of the explanations of    *)
(* _handle_option_api_error.                                               *)
(***************************************************************************)
MapperExplanations(error_message) ==
    {_get_short_straddle_error_message, _get_short_strangle_error_message,
     _get_short_calendar_error_message, _get_uncovered_options_error_message,
     PermissionDenied(error_message), OrderPlacementFailure(error_message)}

C3_Original_AllErrorsMapped ==
    pc = "done" /\ ClientRaised => outcome.v \in MapperExplanations(reply.msg)

(***************************************************************************)
(* C3 (amended): an APIError raised by submit_order for an option order    *)
(* comes back as one of the explanations of _handle_option_api_error; any  *)
(* other exception of the option tool comes back as the unexpected-error   *)
(* text, and an exception of the stock tool as "Error placing order: "     *)
(* followed by the error's own text.                                       *)
(***************************************************************************)
C3_OptionApiErrorsMapped ==
    pc = "done" /\ ClientRaised =>
        /\ outcome.k = "return"
        /\ IF IsOptionCall
           THEN IF reply.exc = "APIError"
                THEN /\ outcome.v \in MapperExplanations(reply.msg)
                     /\ outcome.v # UnexpectedError(reply.msg)
                ELSE outcome.v = UnexpectedError(reply.msg)
           ELSE outcome.v = PyStr("Error placing order: " \o reply.msg)

\* an option order was refused with a 403 and the permission-denied explanation came back
C3_Witness ==
    /\ pc = "done" /\ IsOptionCall /\ ClientRaised
    /\ reply.exc = "APIError" /\ reply.msg = "403 Forbidden"
    /\ outcome.v = PermissionDenied("403 Forbidden")

(***************************************************************************)
(* C4 (as stated): a LIMIT order without limit_price always fails,         *)
(* whatever the other arguments (here: of the types the tool declares),    *)
(* with a message naming limit_price.                                      *)
(***************************************************************************)
C4_Original_AlwaysNamesLimitPrice ==
    IsStockCall /\ OrderTypeIs(Args, "LIMIT") /\ ~Present(Args.limit_price)
        /\ IsStr(Args.side) /\ Args.time_in_force.t \in {"str", "TimeInForce"} =>
        /\ pc = "done" /\ submitted = <<>>
        /\ Contains(Result, "limit_price")

(***************************************************************************)
(* C4 (amended): a LIMIT order without limit_price always fails and is     *)
(* never submitted, whatever the other arguments; the message names        *)
(* limit_price when side and time_in_force are valid (an invalid side or   *)
(* time_in_force is reported first).  With limit_price supplied and side   *)
(* and time_in_force valid, a request of type LIMIT is built.              *)
(***************************************************************************)
Failed == pc = "done" /\ submitted = <<>> /\ outcome.k = "return" /\ reply = NoOutcome

C4_LimitNeedsLimitPrice ==
    IsStockCall /\ OrderTypeIs(Args, "LIMIT") =>
        /\ ~Present(Args.limit_price) =>
              /\ Failed
              /\ ~Contains(Result, "Order Placed Successfully")
              /\ (ValidSide(Args.side) /\ ValidStockTimeInForce(Args.time_in_force)
                    => Result = "limit_price is required for LIMIT orders.")
        /\ Present(Args.limit_price) /\ ValidSide(Args.side)
                /\ ValidStockTimeInForce(Args.time_in_force) =>
              /\ Len(submitted) = 1
              /\ submitted[1].req.cls = "LimitOrderRequest"
              /\ submitted[1].req.type = PyEnum("OrderType", "LIMIT")
              /\ submitted[1].req.limit_price = Args.limit_price

\* a LIMIT order without limit_price has been refused with the message naming it
C4_Witness ==
    /\ IsStockCall /\ OrderTypeIs(Args, "LIMIT") /\ ~Present(Args.limit_price)
    /\ pc = "done" /\ Contains(Result, "limit_price")

(***************************************************************************)
(* C5 (as stated): a STOP_LIMIT order missing only stop_price gets a       *)
(* message naming stop_price and not limit_price, and one missing only     *)
(* limit_price a message naming limit_price and not stop_price.            *)
(***************************************************************************)
StockSideAndTifValid ==
    IsStockCall /\ ValidSide(Args.side) /\ ValidStockTimeInForce(Args.time_in_force)

C5_Original_NamesExactlyMissingField ==
    /\ StockSideAndTifValid /\ OrderTypeIs(Args, "STOP") /\ ~Present(Args.stop_price) =>
          Failed /\ Contains(Result, "stop_price")
    /\ StockSideAndTifValid /\ OrderTypeIs(Args, "STOP_LIMIT")
            /\ ~Present(Args.stop_price) /\ Present(Args.limit_price) =>
          Failed /\ Contains(Result, "stop_price") /\ ~Contains(Result, "limit_price")
    /\ StockSideAndTifValid /\ OrderTypeIs(Args, "STOP_LIMIT")
            /\ Present(Args.stop_price) /\ ~Present(Args.limit_price) =>
          Failed /\ Contains(Result, "limit_price") /\ ~Contains(Result, "stop_price")

(***************************************************************************)
(* C5 (amended): with side and time_in_force valid, a STOP order without   *)
(* stop_price fails with a message naming stop_price and not limit_price;  *)
(* a STOP_LIMIT order missing stop_price, limit_price or both fails with   *)
(* one and the same message, which names both fields.  No request is built *)
(* in these cases, whatever side and time_in_force are.                    *)
(***************************************************************************)
C5_StopPricesRequired ==
    /\ IsStockCall /\ OrderTypeIs(Args, "STOP") /\ ~Present(Args.stop_price) =>
          /\ Failed
          /\ StockSideAndTifValid =>
                Contains(Result, "stop_price") /\ ~Contains(Result, "limit_price")
    /\ IsStockCall /\ OrderTypeIs(Args, "STOP_LIMIT")
            /\ (~Present(Args.stop_price) \/ ~Present(Args.limit_price)) =>
          /\ Failed
          /\ StockSideAndTifValid =>
                /\ Result = "Both stop_price and limit_price are required for STOP_LIMIT orders."
                /\ Contains(Result, "stop_price") /\ Contains(Result, "limit_price")

\* a STOP_LIMIT order with limit_price and no stop_price has been refused
C5_Witness ==
    /\ StockSideAndTifValid /\ OrderTypeIs(Args, "STOP_LIMIT")
    /\ ~Present(Args.stop_price) /\ Present(Args.limit_price)
    /\ Failed /\ Contains(Result, "limit_price")

(***************************************************************************)
(* C6: a TRAILING_STOP order with neither trail_price nor trail_percent    *)
(* fails and is not submitted; with trail_price alone, trail_percent       *)
(* alone, or both (and side and time_in_force valid) a trailing-stop       *)
(* request carrying the given values is built and submitted.               *)
(***************************************************************************)
C6_TrailingStopNeedsOne ==
    IsStockCall /\ OrderTypeIs(Args, "TRAILING_STOP") =>
        /\ ~Present(Args.trail_price) /\ ~Present(Args.trail_percent) =>
              /\ Failed
              /\ StockSideAndTifValid =>
                    Result = "Either trail_price or trail_percent is required for TRAILING_STOP orders."
        /\ (Present(Args.trail_price) \/ Present(Args.trail_percent))
                /\ StockSideAndTifValid =>
              /\ Len(submitted) = 1
              /\ submitted[1].req.cls = "TrailingStopOrderRequest"
              /\ submitted[1].req.type = PyEnum("OrderType", "TRAILING_STOP")
              /\ submitted[1].req.trail_price = Args.trail_price
              /\ submitted[1].req.trail_percent = Args.trail_percent

\* a trailing-stop order with trail_percent alone has been submitted and placed
C6_Witness ==
    /\ IsStockCall /\ OrderTypeIs(Args, "TRAILING_STOP")
    /\ ~Present(Args.trail_price) /\ Present(Args.trail_percent)
    /\ pc = "done" /\ Len(submitted) = 1 /\ reply.k = "return"
    /\ Contains(Result, "Order Placed Successfully")

(***************************************************************************)
(* C7 (as stated): every TRAILING_STOP request built has exactly one of    *)
(* trail_price and trail_percent set.                                      *)
(***************************************************************************)
IsTrailingStopRequest(r) == r.cls = "TrailingStopOrderRequest"

C7_Original_ExactlyOneTrail ==
    \A i \in 1..Len(submitted) :
        IsTrailingStopRequest(submitted[i].req) =>
            Present(submitted[i].req.trail_price) # Present(submitted[i].req.trail_percent)

(***************************************************************************)
(* C7 (amended): every TRAILING_STOP request place_stock_order builds has  *)
(* at least one of trail_price and trail_percent set, and carries both     *)
(* arguments as given: when both are supplied, both are set in the         *)
(* request.                                                                *)
(***************************************************************************)
C7_AtLeastOneTrail ==
    \A i \in 1..Len(submitted) :
        IsTrailingStopRequest(submitted[i].req) =>
            /\ Present(submitted[i].req.trail_price) \/ Present(submitted[i].req.trail_percent)
            /\ submitted[i].req.trail_price = Args.trail_price
            /\ submitted[i].req.trail_percent = Args.trail_percent

\* a trailing-stop request with both trail_price and trail_percent set is with the client
C7_Witness ==
    /\ pc = "awaiting" /\ Len(submitted) = 1
    /\ IsTrailingStopRequest(submitted[1].req)
    /\ Present(submitted[1].req.trail_price) /\ Present(submitted[1].req.trail_percent)

(***************************************************************************)
(* C8: place_stock_order matches side, order_type and time_in_force        *)
(* without regard to case against {BUY, SELL}, {MARKET, LIMIT, STOP,       *)
(* STOP_LIMIT, TRAILING_STOP} and {DAY, GTC, OPG, CLS, IOC, FOK}, and uses *)
(* a time_in_force that is an enum value as it is.  A string outside its   *)
(* set is never defaulted: nothing is submitted, and the failure names the *)
(* first such value (in the order side, time_in_force, order_type) and the *)
(* values allowed for it.                                                  *)
(***************************************************************************)
OrderTypeNames == {"MARKET", "LIMIT", "STOP", "STOP_LIMIT", "TRAILING_STOP"}

InvalidSideString(a) == IsStr(a.side) /\ ~ValidSide(a.side)
InvalidTifString(a) == IsStr(a.time_in_force) /\ ~ValidStockTimeInForce(a.time_in_force)
InvalidTypeString(a) == IsStr(a.order_type) /\ upper(a.order_type.s) \notin OrderTypeNames

C8_EnumStringsMatched ==
    IsStockCall =>
        /\ InvalidSideString(Args) \/ InvalidTifString(Args) \/ InvalidTypeString(Args) =>
              Failed /\ ~Contains(Result, "Order Placed Successfully")
        /\ InvalidSideString(Args) =>
              /\ Contains(Result, "Invalid order side: " \o Args.side.s)
              /\ Contains(Result, "'buy' or 'sell'")
        /\ ValidSide(Args.side) /\ InvalidTifString(Args) =>
              /\ Contains(Result, "Invalid time_in_force: " \o Args.time_in_force.s)
              /\ Contains(Result, "DAY, GTC, OPG, CLS, IOC, FOK")
        /\ ValidSide(Args.side) /\ ValidStockTimeInForce(Args.time_in_force)
                /\ InvalidTypeString(Args) =>
              /\ Contains(Result, "Invalid order type: " \o Args.order_type.s)
              /\ Contains(Result, "MARKET, LIMIT, STOP, STOP_LIMIT, TRAILING_STOP")
        /\ StockArgsValid(Args) =>
              /\ Len(submitted) = 1
              /\ submitted[1].req.side = PyEnum("OrderSide", upper(Args.side.s))
              /\ submitted[1].req.type = PyEnum("OrderType", upper(Args.order_type.s))
              /\ submitted[1].req.time_in_force =
                    (IF IsStr(Args.time_in_force)
                     THEN PyEnum("TimeInForce", upper(Args.time_in_force.s))
                     ELSE Args.time_in_force)

\* "Sell", "FoK" and "Trailing_Stop" have been matched and the request built
C8_Witness ==
    /\ IsStockCall /\ Len(submitted) = 1
    /\ Args.side = PyStr("Sell") /\ Args.time_in_force = PyStr("FoK")
    /\ Args.order_type = PyStr("Trailing_Stop")
    /\ submitted[1].req.side = PyEnum("OrderSide", "SELL")
    /\ submitted[1].req.time_in_force = PyEnum("TimeInForce", "FOK")
    /\ submitted[1].req.type = PyEnum("OrderType", "TRAILING_STOP")

(***************************************************************************)
(* C9: the preconditions of an option order are checked before the order   *)
(* class is resolved and before any leg is processed: no legs, more than 4 *)
(* legs, quantity <= 0 or a time_in_force other than DAY each give that    *)
(* precondition's failure and no submission, whatever the class and the    *)
(* legs are; 5 legs fail whatever every other field is.                    *)
(***************************************************************************)
C9_OptionPreconditionsFirst ==
    IsOptionCall =>
        /\ ~OptionPreconditions(Args) =>
              /\ Failed
              /\ Result =
                    (IF Len(Args.legs) = 0 THEN "Error: No option legs provided"
                     ELSE IF Len(Args.legs) > 4
                     THEN "Error: Maximum of 4 legs allowed for option orders"
                     ELSE IF Args.quantity.n <= 0 THEN "Error: Quantity must be positive"
                     ELSE "Error: Only DAY time_in_force is supported for options trading")
        /\ Len(Args.legs) = 5 =>
              Failed /\ Result = "Error: Maximum of 4 legs allowed for option orders"

\* five legs, one of them invalid, with an unknown class and quantity 0: refused for the legs' number
C9_Witness ==
    /\ IsOptionCall /\ Len(Args.legs) = 5 /\ pc = "done"
    /\ Args.order_class = PyStr("spread") /\ Args.quantity.n = 0
    /\ \E i \in 1..5 : ~ValidLeg(Args.legs[i])
    /\ Contains(Result, "Maximum of 4 legs")

(***************************************************************************)
(* C10: for n valid raw legs, 1 <= n <= 4, the leg processor gives exactly *)
(* n leg objects in the order of the input, the i-th with the i-th raw     *)
(* leg's symbol, its side mapped to BUY or SELL and its ratio_qty; when a  *)
(* leg is invalid the result is a failure and no list of legs, partial or  *)
(* not, is submitted.                                                      *)
(***************************************************************************)
LegOf(raw) == OptionLegRequest(raw.symbol, upper(raw.side.s), raw.ratio_qty)

C10_LegsInOrderOrNone ==
    IsOptionCall /\ OptionPreconditions(Args) /\ ValidOrderClass(Args.order_class) =>
        /\ (\A i \in 1..Len(Args.legs) : ValidLeg(Args.legs[i])) =>
              /\ Len(submitted) = 1
              /\ Len(submitted[1].legs) = Len(Args.legs)
              /\ \A i \in 1..Len(Args.legs) : submitted[1].legs[i] = LegOf(Args.legs[i])
              /\ _process_option_legs(Args.legs) = Return(PyList(submitted[1].legs))
        /\ (\E i \in 1..Len(Args.legs) : ~ValidLeg(Args.legs[i])) =>
              /\ Failed
              /\ _process_option_legs(Args.legs).k = "raise"
                    \/ IsStr(_process_option_legs(Args.legs).v)

\* four valid legs, not all alike, were processed in order and submitted
C10_Witness ==
    /\ IsOptionCall /\ Len(Args.legs) = 4 /\ Len(submitted) = 1
    /\ Args.legs[1] # Args.legs[4]
    /\ Len(submitted[1].legs) = 4
    /\ \A i \in 1..4 : submitted[1].legs[i].symbol = Args.legs[i].symbol

(***************************************************************************)
(* C11: every leg of a submitted option order has a ratio_qty that is an   *)
(* integer from 1 to 4; a raw leg whose ratio_qty is not an integer, is    *)
(* <= 0 or is greater than 4 (the legs before it being valid) is refused   *)
(* with a failure that names the leg's symbol.                             *)
(***************************************************************************)
MaxRatioQty == 4

RatioQtyInRange(v) == v.t = "int" /\ v.n \in 1..MaxRatioQty

C11_RatioQtyInRange ==
    IsOptionCall =>
        /\ \A i \in 1..Len(submitted) : \A j \in 1..Len(submitted[i].legs) :
              RatioQtyInRange(submitted[i].legs[j].ratio_qty)
        /\ pc = "done" /\ OptionPreconditions(Args) /\ ValidOrderClass(Args.order_class)
              => \A i \in 1..Len(Args.legs) :
                    /\ \A j \in 1..(i - 1) : ValidLeg(Args.legs[j])
                    /\ DOMAIN Args.legs[i] = {"symbol", "side", "ratio_qty"}
                    /\ ~RatioQtyInRange(Args.legs[i].ratio_qty)
                    => Failed /\ Contains(Result, Args.legs[i].symbol.s)

(***************************************************************************)
(* C12: a class string is matched without regard to case against SIMPLE,   *)
(* BRACKET, OCO, OTO and MLEG, and the order is submitted with that class; *)
(* any other string gives a failure and no submission (the "Invalid order  *)
(* class" failure when the preconditions hold); without a class the order  *)
(* is submitted as MLEG when there is more than one leg and as SIMPLE when *)
(* there is exactly one.                                                   *)
(***************************************************************************)
AllLegsValid == \A i \in 1..Len(Args.legs) : ValidLeg(Args.legs[i])

NamesOrderClass(v) ==
    IsStr(v) /\ lower(v.s) \in {"simple", "bracket", "oco", "oto", "mleg"}

SubmittedWithClass(name) ==
    /\ Len(submitted) = 1
    /\ submitted[1].cls = PyEnum("OrderClass", name)
    /\ submitted[1].req.order_class = PyEnum("OrderClass", name)

C12_OrderClassResolved ==
    IsOptionCall =>
        /\ IsStr(Args.order_class) /\ ~NamesOrderClass(Args.order_class) => Failed
        /\ OptionPreconditions(Args) =>
              /\ IsStr(Args.order_class) /\ ~NamesOrderClass(Args.order_class) =>
                    Result = "Invalid order class: " \o Args.order_class.s
                                \o ". Must be one of: simple, bracket, oco, oto, mleg"
              /\ AllLegsValid =>
                    /\ \A name \in OrderClassNames :
                           IsStr(Args.order_class) /\ lower(Args.order_class.s) = lower(name)
                               => SubmittedWithClass(name)
                    /\ IsNone(Args.order_class) /\ Len(Args.legs) > 1
                           => SubmittedWithClass("MLEG")
                    /\ IsNone(Args.order_class) /\ Len(Args.legs) = 1
                           => SubmittedWithClass("SIMPLE")

\* one leg and no class: the order was submitted as SIMPLE
C12_Witness ==
    /\ IsOptionCall /\ IsNone(Args.order_class) /\ Len(Args.legs) = 1
    /\ SubmittedWithClass("SIMPLE")

(***************************************************************************)
(* C13: a submitted option order of class MLEG carries the list of all the *)
(* processed legs, in order, and no symbol or side of its own; a submitted *)
(* order of any other class made from exactly one leg carries that leg's   *)
(* symbol and side and no list of legs.                                    *)
(***************************************************************************)
C13_RequestShaped ==
    IsOptionCall /\ Len(submitted) = 1 =>
        LET req == submitted[1].req IN
        /\ req.order_class = PyEnum("OrderClass", "MLEG") =>
              /\ "legs" \in DOMAIN req
              /\ req.legs = PyList([i \in 1..Len(Args.legs) |-> LegOf(Args.legs[i])])
              /\ "symbol" \notin DOMAIN req
              /\ "side" \notin DOMAIN req
        /\ req.order_class # PyEnum("OrderClass", "MLEG") /\ Len(Args.legs) = 1 =>
              /\ "legs" \notin DOMAIN req
              /\ req.symbol = Args.legs[1].symbol
              /\ req.side = PyEnum("OrderSide", upper(Args.legs[1].side.s))

\* one leg with the class "mleg": the order submitted carries a list of that one leg
C13_Witness ==
    /\ IsOptionCall /\ Len(submitted) = 1 /\ Len(Args.legs) = 1
    /\ Args.order_class = PyStr("mleg")
    /\ submitted[1].req.order_class = PyEnum("OrderClass", "MLEG")
    /\ "legs" \in DOMAIN submitted[1].req
    /\ Len(submitted[1].req.legs.items) = 1

(***************************************************************************)
(* The calls of the helpers, for the statements about them.                *)
(***************************************************************************)
ClassifierCalled == pc = "done" /\ call.tool = "_analyze_option_strategy_type"
MapperCalled == pc = "done" /\ call.tool = "_handle_option_api_error"

\* the three flags for the legs and the class of the call
Flags == _analyze_option_strategy_type(call.args.order_legs, call.args.order_class)

UncoveredCode == "40310000"
UncoveredPhrase == "not eligible to trade uncovered option contracts"
IsUncoveredText(m) == Contains(m, UncoveredCode) /\ Contains(m, UncoveredPhrase)

(***************************************************************************)
(* C14: for an error text with the code 40310000 and the phrase "not       *)
(* eligible to trade uncovered option contracts" the mapper returns the    *)
(* straddle template when the legs classify as short straddle, the         *)
(* strangle template when short strangle, the calendar template when short *)
(* calendar, and the generic uncovered-options template when no flag is    *)
(* set; it returns no other text.  (When the straddle and the calendar     *)
(* flag are both set the straddle template is returned.)                   *)
(***************************************************************************)
C14_UncoveredTemplateByStrategy ==
    MapperCalled /\ IsUncoveredText(call.args.error_message) =>
        /\ Flags[1] => outcome.v = _get_short_straddle_error_message
        /\ Flags[2] => outcome.v = _get_short_strangle_error_message
        /\ Flags[3] /\ ~Flags[1] => outcome.v = _get_short_calendar_error_message
        /\ Flags = <<FALSE, FALSE, FALSE>> =>
              outcome.v = _get_uncovered_options_error_message
        /\ outcome.v \in {_get_short_straddle_error_message,
                          _get_short_strangle_error_message,
                          _get_short_calendar_error_message,
                          _get_uncovered_options_error_message}
        /\ Contains(_get_short_straddle_error_message.s, "short straddle")
        /\ Contains(_get_short_strangle_error_message.s, "short strangle")
        /\ Contains(_get_short_calendar_error_message.s, "short calendar")

\* two short calls of different strikes, refused as uncovered: the calendar template
C14_Witness ==
    /\ MapperCalled /\ call.args.error_message = UncoveredText
    /\ Flags = <<FALSE, FALSE, TRUE>>
    /\ outcome.v = _get_short_calendar_error_message

(***************************************************************************)
(* C15: the mapper returns exactly one explanation for every error text.   *)
(* The permission-denied explanation is returned exactly when the text     *)
(* does not have both the code 40310000 and the uncovered-options phrase   *)
(* and contains "403" (so always for the code without the phrase);         *)
(* otherwise, when the text has not both marks, the order-placement        *)
(* failure explanation is returned, with the error text in it verbatim.    *)
(***************************************************************************)
IsPermissionDenied(v) == Contains(v.s, "Error: Permission denied for option trading.")
IsOrderPlacementFailure(v) == Contains(v.s, "Error placing option order: ")
IsUncoveredExplanation(v) == Contains(v.s, "Error: Account not eligible to trade ")

C15_OneCategoryInPriorityOrder ==
    MapperCalled =>
        LET m == call.args.error_message IN
        /\ outcome.k = "return" /\ IsStr(outcome.v)
        /\ IsUncoveredExplanation(outcome.v) <=> IsUncoveredText(m)
        /\ IsPermissionDenied(outcome.v) <=> (~IsUncoveredText(m) /\ Contains(m, "403"))
        /\ IsOrderPlacementFailure(outcome.v)
              <=> (~IsUncoveredText(m) /\ ~Contains(m, "403"))
        /\ Contains(m, UncoveredCode) /\ ~Contains(m, UncoveredPhrase)
              => outcome.v = PermissionDenied(m)
        /\ IsPermissionDenied(outcome.v) => Contains(outcome.v.s, "Original error: " \o m)
        /\ IsOrderPlacementFailure(outcome.v)
              => Contains(outcome.v.s, "Error placing option order: " \o m \o "\n")

\* the code 40310000 without the phrase: permission denied
C15_Witness ==
    /\ MapperCalled
    /\ Contains(call.args.error_message, UncoveredCode)
    /\ ~Contains(call.args.error_message, UncoveredPhrase)
    /\ IsPermissionDenied(outcome.v)

(***************************************************************************)
(* C16: the strategy analysis never blocks or alters a submission.  An     *)
(* invocation of place_option_market_order ends with one of the            *)
(* explanations chosen by the analysis only after submit_order was called  *)
(* and raised an APIError with the code 40310000 and the uncovered-options *)
(* phrase; every option order with valid arguments is submitted, with all  *)
(* its legs as processed, whatever strategy its legs form; and what was    *)
(* submitted is not changed by the handling of the client's answer.        *)
(***************************************************************************)
UncoveredExplanations ==
    {_get_short_straddle_error_message, _get_short_strangle_error_message,
     _get_short_calendar_error_message, _get_uncovered_options_error_message}

C16_ClassifierNeverBlocks ==
    /\ [](IsOptionCall =>
            /\ outcome.k = "return" /\ outcome.v \in UncoveredExplanations =>
                  /\ Len(submitted) = 1
                  /\ reply.k = "raise" /\ reply.exc = "APIError"
                  /\ IsUncoveredText(reply.msg)
            /\ OptionArgsValid(Args) =>
                  /\ Len(submitted) = 1
                  /\ \A i \in 1..Len(Args.legs) : submitted[1].legs[i] = LegOf(Args.legs[i]))
    /\ [][pc = "awaiting" => submitted' = submitted]_vars

\* a short straddle was submitted, refused as uncovered, and explained as a short straddle
C16_Witness ==
    /\ pc = "done" /\ IsOptionCall /\ Len(submitted) = 1
    /\ reply = Raise("APIError", UncoveredText)
    /\ _analyze_option_strategy_type(submitted[1].legs, submitted[1].cls)[1]
    /\ outcome.v = _get_short_straddle_error_message

(***************************************************************************)
(* The legs and the class of a call of the classifier, and the parts of an *)
(* option contract symbol: the underlying, 6 digits of expiration, C or P, *)
(* 8 digits of strike.                                                     *)
(***************************************************************************)
Legs == call.args.order_legs
IsMleg == call.args.order_class = PyEnum("OrderClass", "MLEG")
IsSell(leg) == leg.side = PyEnum("OrderSide", "SELL")
NoFlag == <<FALSE, FALSE, FALSE>>

Underlying(sym) == SubSeq(sym, 1, Len(sym) - 15)
Expiration(sym) == SubSeq(sym, Len(sym) - 14, Len(sym) - 9)
TypeMarker(sym) == CharAt(sym, Len(sym) - 8)
Strike(sym) == SubSeq(sym, Len(sym) - 7, Len(sym))

\* a 2-leg MLEG order with both legs SELL has been classified
ShortPairClassified ==
    ClassifierCalled /\ IsMleg /\ Len(Legs) = 2 /\ IsSell(Legs[1]) /\ IsSell(Legs[2])

Sym1 == Legs[1].symbol.s
Sym2 == Legs[2].symbol.s

(***************************************************************************)
(* C17: the classifier sets no flag when the order class is not MLEG, when *)
(* the legs are not exactly 2, or when one of the two legs is not SELL.    *)
(***************************************************************************)
C17_NoneUnlessShortMlegPair ==
    ClassifierCalled =>
        /\ ~IsMleg => outcome.v = NoFlag
        /\ Len(Legs) # 2 => outcome.v = NoFlag
        /\ Len(Legs) = 2 /\ (~IsSell(Legs[1]) \/ ~IsSell(Legs[2])) => outcome.v = NoFlag

\* an MLEG call and put of one strike and expiration, the put bought: no flag
C17_Witness ==
    /\ ClassifierCalled /\ IsMleg /\ Len(Legs) = 2
    /\ IsSell(Legs[1]) /\ ~IsSell(Legs[2])
    /\ Sym1 = "TSLA250620C00500000" /\ Sym2 = "TSLA250620P00500000"
    /\ outcome.v = NoFlag

(***************************************************************************)
(* C18: a 2-leg MLEG order with both legs SELL, one a call and the other a *)
(* put of the same underlying, strike and expiration, is classified as a   *)
(* short straddle, whatever the underlying's ticker is and whichever of    *)
(* the two legs comes first.                                               *)
(***************************************************************************)
CallAndPut == TypeMarker(Sym1) # TypeMarker(Sym2)

C18_StraddleForEveryTickerAndOrder ==
    ShortPairClassified /\ CallAndPut
        /\ Underlying(Sym1) = Underlying(Sym2)
        /\ Strike(Sym1) = Strike(Sym2)
        /\ Expiration(Sym1) = Expiration(Sym2)
        => outcome.v = <<TRUE, FALSE, FALSE>>

(***************************************************************************)
(* C19: a 2-leg MLEG order with both legs SELL, one a call and the other a *)
(* put of the same underlying and expiration and of different strikes, is  *)
(* classified as a short strangle and not as a short straddle.             *)
(***************************************************************************)
C19_StrangleForDifferentStrikes ==
    ShortPairClassified /\ CallAndPut
        /\ Underlying(Sym1) = Underlying(Sym2)
        /\ Expiration(Sym1) = Expiration(Sym2)
        /\ Strike(Sym1) # Strike(Sym2)
        => outcome.v = <<FALSE, TRUE, FALSE>>

(***************************************************************************)
(* C20 (as stated): a 2-leg MLEG order with both legs SELL and of the same *)
(* option type, both calls or both puts, whose 6 characters after the type *)
(* marker differ, is classified as a short calendar, with the strangle     *)
(* flag cleared.                                                           *)
(***************************************************************************)
SixAfterMarker(sym) == SubSeq(sym, Len(sym) - 7, Len(sym) - 2)

HasC(sym) == \E i \in 1..Len(sym) : CharAt(sym, i) = "C"

\* the characters of sym from position i on, up to the next C, at most 6
RECURSIVE PieceFrom(_, _, _)
PieceFrom(sym, i, n) ==
    IF n = 0 \/ i > Len(sym) \/ CharAt(sym, i) = "C" THEN ""
    ELSE CharAt(sym, i) \o PieceFrom(sym, i + 1, n - 1)

AfterFirstC(sym) ==
    LET i == CHOOSE k \in 1..Len(sym) :
                 CharAt(sym, k) = "C" /\ \A j \in 1..(k - 1) : CharAt(sym, j) # "C"
    IN  PieceFrom(sym, i + 1, 6)

ParserCalled == pc = "done" /\ call.tool = "parse_timeframe_with_enums"
TimeframeArg == call.args.timeframe_str

IsDigits(s) == Len(s) > 0 /\ \A i \in 1..Len(s) : IsDigit(CharAt(s, i))
DigitStrings == {a \in AmountStrings : IsDigits(a)}

UnitOfWord ==
    [w \in {"Min", "Hour", "Day", "Week", "Month"} |->
        CASE w = "Min" -> "Minute"
          [] w = "Hour" -> "Hour"
          [] w = "Day" -> "Day"
          [] w = "Week" -> "Week"
          [] w = "Month" -> "Month"]

CeilingOfWord ==
    [w \in DOMAIN UnitOfWord |->
        CASE w = "Min" -> 59
          [] w = "Hour" -> 23
          [] OTHER -> 365]

Parsed == outcome.v.t = "TimeFrame"
Rejected == outcome.k = "return" /\ outcome.v = PyNone

(***************************************************************************)
(* C21: a string of digits followed by Min, Hour, Day, Week or Month       *)
(* parses exactly when the amount is a positive integer not above the      *)
(* unit's ceiling (59 for Min, 23 for Hour, 365 for Day, Week and Month):  *)
(* 59Min, 23Hour, 300Day and 365Day parse, 60Min, 24Hour, 400Day, 366Day   *)
(* and 0Min do not; every rejection is the value None, never an exception. *)
(***************************************************************************)
C21_ParsesExactlyInRange ==
    ParserCalled =>
        /\ outcome.k = "return"
        /\ Parsed \/ Rejected
        /\ \A a \in DigitStrings : \A w \in DOMAIN UnitOfWord :
              IsStr(TimeframeArg) /\ TimeframeArg.s = a \o w =>
                  /\ Parsed <=> int(a) \in 1..CeilingOfWord[w]
                  /\ Parsed => outcome.v = TimeFrame(int(a), UnitOfWord[w])

(***************************************************************************)
(* C22: the parser trims the white space around the string; "1Min",        *)
(* "1Hour", "1Day", "1Week" and "1Month" give the unit with amount 1; the  *)
(* unit word is matched without regard to case, so "1min" and "1Min" give  *)
(* equal results; a string with anything else in it (white space inside, a *)
(* sign, a decimal point, an unknown unit word) is rejected.               *)
(***************************************************************************)
KnownUnitWord(w) == lower(w) \in {"min", "hour", "day", "week", "month"}

C22_TrimsShortcutsAndCase ==
    ParserCalled /\ IsStr(TimeframeArg) =>
        \A a \in AmountStrings : \A w \in UnitWords :
            /\ \A pad \in Paddings :
                  TimeframeArg.s = pad[1] \o a \o w \o pad[2]
                      => outcome.v = parse_timeframe_with_enums(PyStr(a \o w))
            /\ TimeframeArg.s = a \o w =>
                  /\ a = "1" /\ w \in DOMAIN UnitOfWord
                        => outcome.v = TimeFrame(1, UnitOfWord[w])
                  /\ IsDigits(a) /\ KnownUnitWord(w)
                        => outcome.v = parse_timeframe_with_enums(PyStr(a \o upper(w)))
                  /\ ~IsDigits(a) \/ ~KnownUnitWord(w) => Rejected

\* " 5min" between a tab and a space gives 5 minutes
C22_Witness ==
    /\ ParserCalled /\ IsStr(TimeframeArg)
    /\ TimeframeArg.s = "\t 5min "
    /\ outcome.v = TimeFrame(5, "Minute")

(***************************************************************************)
(* C23: two requests built in the same process without an identifier from  *)
(* the caller, also in rapid succession, carry different default           *)
(* client_order_id values; an identifier given by the caller is passed on  *)
(* unchanged.                                                              *)
(***************************************************************************)
CallerGaveId(s) ==
    /\ s.call.tool = "place_stock_order"
    /\ Truthy(s.call.args.client_order_id)

C23_DefaultIdsDiffer ==
    /\ \A i \in 1..Len(submitted) : \A j \in 1..Len(submitted) :
          i < j /\ ~CallerGaveId(submitted[i]) /\ ~CallerGaveId(submitted[j])
              => submitted[i].req.client_order_id # submitted[j].req.client_order_id
    /\ \A i \in 1..Len(submitted) :
          CallerGaveId(submitted[i])
              => submitted[i].req.client_order_id = submitted[i].call.args.client_order_id

IsSuccessResult ==
    /\ outcome.k = "return" /\ IsStr(outcome.v)
    /\ Contains(Result, "Order Placed Successfully:")

IsFailureResult == pc = "done" /\ (IsStockCall \/ IsOptionCall) /\ ~IsSuccessResult

C25_FailuresBeginWithError ==
    IsFailureResult =>
        /\ outcome.k = "return" /\ IsStr(outcome.v)
        /\ StartsWith(Result, "Error")

(***************************************************************************)
(* C26: whenever place_option_market_order reaches submission, the request *)
(* submitted represents every input leg: no leg is dropped, in particular  *)
(* when the caller gives a class other than MLEG (simple, bracket, oco,    *)
(* oto) together with 2 to 4 legs.                                         *)
(***************************************************************************)
Represents(req, raw) ==
    \/ /\ "legs" \in DOMAIN req
       /\ \E i \in 1..Len(req.legs.items) : req.legs.items[i] = LegOf(raw)
    \/ /\ "symbol" \in DOMAIN req
       /\ req.symbol = raw.symbol
       /\ req.side = PyEnum("OrderSide", upper(raw.side.s))

C26_EveryLegSubmitted ==
    IsOptionCall /\ Len(submitted) = 1 =>
        \A i \in 1..Len(Args.legs) : Represents(submitted[1].req, Args.legs[i])

(***************************************************************************)
(* C27: no order request with a quantity of 0 or less is ever passed to    *)
(* trade_client.submit_order, by place_stock_order or by                   *)
(* place_option_market_order, whatever the order type.                     *)
(***************************************************************************)
C27_SubmittedQuantityPositive ==
    \A i \in 1..Len(submitted) : submitted[i].req.qty.n > 0

(***************************************************************************)
(* C28: the classification of a 2-leg order does not depend on the order   *)
(* of the legs: for all legs a and b and every order class, the classifier *)
(* gives for [a, b] what it gives for [b, a].                              *)
(***************************************************************************)
C28_LegOrderIrrelevant ==
    ClassifierCalled /\ Len(Legs) = 2 =>
        outcome.v = _analyze_option_strategy_type(<<Legs[2], Legs[1]>>, call.args.order_class)

(***************************************************************************)
(* C29: for every list of legs and every order class at most one of the    *)
(* three flags (short straddle, short strangle, short calendar) is true,   *)
(* so the order in which the error mapper tests the flags cannot change    *)
(* the template it selects.                                                *)
(***************************************************************************)
TrueFlags(flags) == {i \in 1..3 : flags[i]}

C29_AtMostOneFlag ==
    ClassifierCalled => Cardinality(TrueFlags(outcome.v)) <= 1

(***************************************************************************)
(* C30: for every 2-leg MLEG order whose legs are both SELL the classifier *)
(* sets at least one flag, so the error mapper never returns the generic   *)
(* uncovered-options explanation for such an order: it returns it only for *)
(* orders that are not MLEG, that do not have exactly 2 legs, or that have *)
(* a BUY leg.                                                              *)
(***************************************************************************)
IsShortPair == IsMleg /\ Len(Legs) = 2 /\ IsSell(Legs[1]) /\ IsSell(Legs[2])

C30_ShortPairNeverGeneric ==
    /\ ClassifierCalled /\ IsShortPair =>
          outcome.k = "return" /\ outcome.v # NoFlag
    /\ MapperCalled /\ outcome.v = _get_uncovered_options_error_message =>
          \/ ~IsMleg
          \/ Len(Legs) # 2
          \/ \E i \in 1..Len(Legs) : ~IsSell(Legs[i])

\* two short calls of different expirations, refused as uncovered: the mapper
\* has returned the calendar explanation
C30_Witness ==
    /\ MapperCalled /\ IsShortPair
    /\ IsUncoveredText(call.args.error_message)
    /\ Expiration(Sym1) # Expiration(Sym2)
    /\ TypeMarker(Sym1) = "C" /\ TypeMarker(Sym2) = "C"
    /\ outcome.v = _get_short_calendar_error_message

====
